---- MODULE Spec2Model ----
(***************************************************************************)
(* The RLP codec of GnosisHeader (src/src/header.rs): header_payload_length,*)
(* Encodable::encode / length, Decodable::decode and hash_slow.            *)
(*                                                                         *)
(* Bytes are naturals 0..255 and byte strings are sequences of them.       *)
(* Integers (u64, U256) are held as their big-endian digits base 256 with  *)
(* no leading zero digit (zero is the empty sequence): U256 does not fit a *)
(* model-checker integer, and this is the form the wire format works on.   *)
(* Option<T> is a sequence of length at most one: None == <<>>,            *)
(* Some(x) == <<x>>.                                                       *)
(***************************************************************************)
EXTENDS Naturals, Sequences, FiniteSets, TLC

VARIABLES h, h2, out, out2, buf, res, hash1, hash2, pc

vars == <<h, h2, out, out2, buf, res, hash1, hash2, pc>>

(***************************************************************************)
(* Sizes of the fixed-size types of the header.                            *)
(***************************************************************************)
B256Len == 32
AddressLen == 20
BloomLen == 256
B64Len == 8
AuraSealLen == 65
U256Len == 32
U64Len == 8

(* alloy_rlp: EMPTY_STRING_CODE = 0x80, EMPTY_LIST_CODE = 0xC0. *)
EMPTY_STRING_CODE == 128
EMPTY_LIST_CODE == 192

None == <<>>
Some(x) == <<x>>
is_some(o) == Len(o) = 1
is_none(o) == Len(o) = 0
unwrap(o) == o[1]

Rep(n, b) == [i \in 1..n |-> b]

(***************************************************************************)
(* alloy_rlp primitives, as GnosisHeader's codec calls them.               *)
(***************************************************************************)

(* Big-endian digits of a length, leading zeros stripped. *)
RECURSIVE BeBytes(_)
BeBytes(n) == IF n = 0 THEN <<>> ELSE BeBytes(n \div 256) \o <<n % 256>>

(* usize bytes that are not leading zeros: 8 - leading_zeros / 8. *)
RECURSIVE SignificantBytes(_)
SignificantBytes(n) == IF n = 0 THEN 0 ELSE 1 + SignificantBytes(n \div 256)

(* alloy_rlp::length_of_length *)
length_of_length(payload_length) ==
    IF payload_length < 56 THEN 1 ELSE 1 + SignificantBytes(payload_length)

(* alloy_rlp::Header::encode *)
HeaderEncode(list, payload_length) ==
    LET code == IF list THEN EMPTY_LIST_CODE ELSE EMPTY_STRING_CODE
    IN  IF payload_length < 56
        THEN <<code + payload_length>>
        ELSE LET be == BeBytes(payload_length)
             IN  <<code + 55 + Len(be)>> \o be

(* <[u8] as Encodable>::encode, used by FixedBytes<N>, Bloom, Address, Bytes. *)
BytesEncode(b) ==
    IF Len(b) # 1 \/ b[1] >= EMPTY_STRING_CODE
    THEN HeaderEncode(FALSE, Len(b)) \o b
    ELSE b

(* <[u8] as Encodable>::length *)
BytesLength(b) ==
    IF Len(b) # 1 \/ b[1] >= EMPTY_STRING_CODE
    THEN Len(b) + length_of_length(Len(b))
    ELSE Len(b)

(* Uint::encode (U256) and the uint_impl encode of u64: the stripped *)
(* big-endian digits d of the integer, behind a string header unless  *)
(* the integer is below 0x80.                                         *)
UintEncode(d) ==
    IF Len(d) = 0 THEN <<EMPTY_STRING_CODE>>
    ELSE IF Len(d) = 1 /\ d[1] < EMPTY_STRING_CODE THEN d
    ELSE HeaderEncode(FALSE, Len(d)) \o d

(* Uint::length: 1 if bit_len <= 7, else bytes + length_of_length(bytes). *)
U256Length(d) ==
    IF Len(d) = 0 \/ (Len(d) = 1 /\ d[1] < EMPTY_STRING_CODE)
    THEN 1
    ELSE Len(d) + length_of_length(Len(d))

(* u64::length: 1 if x < 0x80, else 1 + 8 - leading_zeros / 8. *)
U64Length(d) ==
    IF Len(d) = 0 \/ (Len(d) = 1 /\ d[1] < EMPTY_STRING_CODE)
    THEN 1
    ELSE 1 + Len(d)

(***************************************************************************)
(* Decoding.  A cursor is the buffer b with pos, the number of bytes       *)
(* already consumed (the next byte is b[pos + 1]).  Every decoder returns  *)
(* a record whose err is "" on success and the alloy_rlp::Error otherwise. *)
(***************************************************************************)
Fail(e, pos) == [err |-> e, list |-> FALSE, payload_length |-> 0, pos |-> pos]

(* The closing check of Header::decode: buf.remaining() < payload_length. *)
HeaderFinish(b, list, payload_length, pos) ==
    IF Len(b) - pos < payload_length
    THEN Fail("InputTooShort", pos)
    ELSE [err |-> "", list |-> list, payload_length |-> payload_length, pos |-> pos]

(* The long form of Header::decode (first byte 0xB8..=0xBF or 0xF8..=0xFF). *)
(* A length of four or more digits with a nonzero first digit is at least  *)
(* 2^24, more than any buffer here holds, so the closing check fails.      *)
HeaderDecodeLong(b, pos, first) ==
    LET list == first >= 248
        len_of_len == first - (IF list THEN 247 ELSE 183)
        len == SubSeq(b, pos + 2, pos + 1 + len_of_len)
        at == pos + 1 + len_of_len
    IN  IF Len(b) - (pos + 1) < len_of_len THEN Fail("InputTooShort", pos + 1)
        ELSE IF len[1] = 0 THEN Fail("LeadingZero", at)
        ELSE IF len_of_len >= 4 THEN Fail("InputTooShort", at)
        ELSE LET payload_length ==
                     IF len_of_len = 1 THEN len[1]
                     ELSE IF len_of_len = 2 THEN len[1] * 256 + len[2]
                     ELSE (len[1] * 256 + len[2]) * 256 + len[3]
             IN  IF payload_length < 56 THEN Fail("NonCanonicalSize", at)
                 ELSE HeaderFinish(b, list, payload_length, at)

(* alloy_rlp::Header::decode *)
HeaderDecode(b, pos) ==
    IF Len(b) - pos = 0 THEN Fail("InputTooShort", pos)
    ELSE LET first == b[pos + 1]
         IN  IF first < EMPTY_STRING_CODE
             THEN HeaderFinish(b, FALSE, 1, pos)
             ELSE IF first <= 183
             THEN LET payload_length == first - EMPTY_STRING_CODE
                  IN  IF payload_length = 1 /\ Len(b) - (pos + 1) = 0
                      THEN Fail("InputTooShort", pos + 1)
                      ELSE IF payload_length = 1 /\ b[pos + 2] < EMPTY_STRING_CODE
                      THEN Fail("NonCanonicalSingleByte", pos + 1)
                      ELSE HeaderFinish(b, FALSE, payload_length, pos + 1)
             ELSE IF first <= 191 \/ first >= 248
             THEN HeaderDecodeLong(b, pos, first)
             ELSE HeaderFinish(b, TRUE, first - EMPTY_LIST_CODE, pos + 1)

BytesFail(e, pos) == [err |-> e, val |-> <<>>, pos |-> pos]

(* Header::decode_bytes after its Header::decode returned hd: the payload *)
(* of a string header, and the cursor past it.                           *)
PayloadOf(b, hd) ==
    IF hd.err # "" THEN BytesFail(hd.err, hd.pos)
    ELSE IF hd.list THEN BytesFail("UnexpectedList", hd.pos)
    ELSE [err |-> "",
          val |-> SubSeq(b, hd.pos + 1, hd.pos + hd.payload_length),
          pos |-> hd.pos + hd.payload_length]

(* alloy_rlp::Header::decode_bytes(buf, false) *)
DecodeBytes(b, pos) == PayloadOf(b, HeaderDecode(b, pos))

(* <[u8; N]>::try_from(bytes).map_err(|_| Error::UnexpectedLength) *)
(* A slip: a longer string accepted and cut to its first n bytes. *)
FixedCheck_Truncating(n, r) ==
    IF r.err # "" THEN r
    ELSE IF Len(r.val) < n THEN BytesFail("UnexpectedLength", r.pos)
    ELSE [r EXCEPT !.val = SubSeq(r.val, 1, n)]

FixedCheck(n, r) ==
    IF r.err # "" THEN r
    ELSE IF Len(r.val) # n THEN BytesFail("UnexpectedLength", r.pos)
    ELSE r

(* <[u8; N] as Decodable>::decode, behind FixedBytes<N>, Address and Bloom. *)
FixedDecode(n, b, pos) == FixedCheck(n, DecodeBytes(b, pos))

(* static_left_pad::<8>(bytes) *)
U64Check(r) ==
    IF r.err # "" THEN r
    ELSE IF Len(r.val) > U64Len THEN BytesFail("Overflow", r.pos)
    ELSE IF Len(r.val) > 0 /\ r.val[1] = 0 THEN BytesFail("LeadingZero", r.pos)
    ELSE r

(* u64::decode: decode_bytes, then static_left_pad::<8>. *)
U64Decode(b, pos) == U64Check(DecodeBytes(b, pos))

(* The leading zero check of Uint::decode, then try_from_be_slice. *)
U256Check(r) ==
    IF r.err # "" THEN r
    ELSE IF Len(r.val) > 0 /\ r.val[1] = 0 THEN BytesFail("LeadingZero", r.pos)
    ELSE IF Len(r.val) > U256Len THEN BytesFail("Overflow", r.pos)
    ELSE r

(* Uint::<256, 4>::decode *)
U256Decode(b, pos) == U256Check(DecodeBytes(b, pos))

(* alloy_primitives::keccak256: a fixed function of the bytes, injective *)
(* for the purposes of this model.                                       *)
keccak256(b) == <<"keccak256", b>>

(***************************************************************************)
(* GnosisHeader                                                            *)
(***************************************************************************)

(* GnosisHeader::is_post_merge *)
is_post_merge(g) == is_some(g.mix_hash) /\ is_some(g.nonce)

(* GnosisHeader::is_pre_merge *)
is_pre_merge(g) == is_some(g.aura_step) /\ is_some(g.aura_seal)

(* A slip: an absent aura_step counted as no bytes at all. *)
VariantLength_AbsentStepNothing(g) ==
    IF is_post_merge(g)
    THEN (IF is_some(g.mix_hash) THEN BytesLength(unwrap(g.mix_hash)) ELSE 0)
         + (IF is_some(g.nonce) THEN BytesLength(unwrap(g.nonce)) ELSE 0)
    ELSE (IF is_some(g.aura_step) THEN U256Length(unwrap(g.aura_step)) ELSE 0)
         + (IF is_some(g.aura_seal) THEN BytesLength(unwrap(g.aura_seal)) ELSE 0)

(* The consensus fields' share of header_payload_length. *)
VariantLength(g) ==
    IF is_post_merge(g)
    THEN (IF is_some(g.mix_hash) THEN BytesLength(unwrap(g.mix_hash)) ELSE 0)
         + (IF is_some(g.nonce) THEN BytesLength(unwrap(g.nonce)) ELSE 0)
    ELSE U256Length(IF is_some(g.aura_step) THEN unwrap(g.aura_step) ELSE <<>>)
         + (IF is_some(g.aura_seal) THEN BytesLength(unwrap(g.aura_seal)) ELSE 0)

(* A slip: the newest field, requests_hash, left out of the sum. *)
ForkLength_NoRequestsHash(g) ==
      (IF is_some(g.base_fee_per_gas)
       THEN U256Length(unwrap(g.base_fee_per_gas)) ELSE 0)
    + (IF is_some(g.withdrawals_root)
       THEN BytesLength(unwrap(g.withdrawals_root)) ELSE 0)
    + (IF is_some(g.blob_gas_used)
       THEN U256Length(unwrap(g.blob_gas_used)) ELSE 0)
    + (IF is_some(g.excess_blob_gas)
       THEN U256Length(unwrap(g.excess_blob_gas)) ELSE 0)
    + (IF is_some(g.parent_beacon_block_root)
       THEN BytesLength(unwrap(g.parent_beacon_block_root)) ELSE 0)

(* The fork-specific fields' share of header_payload_length. *)
ForkLength(g) ==
      (IF is_some(g.base_fee_per_gas)
       THEN U256Length(unwrap(g.base_fee_per_gas)) ELSE 0)
    + (IF is_some(g.withdrawals_root)
       THEN BytesLength(unwrap(g.withdrawals_root)) ELSE 0)
    + (IF is_some(g.blob_gas_used)
       THEN U256Length(unwrap(g.blob_gas_used)) ELSE 0)
    + (IF is_some(g.excess_blob_gas)
       THEN U256Length(unwrap(g.excess_blob_gas)) ELSE 0)
    + (IF is_some(g.parent_beacon_block_root)
       THEN BytesLength(unwrap(g.parent_beacon_block_root)) ELSE 0)
    + (IF is_some(g.requests_hash)
       THEN BytesLength(unwrap(g.requests_hash)) ELSE 0)

(* A slip: the extra_data term left out. *)
FixedLength_NoExtraData(g) ==
      BytesLength(g.parent_hash)
    + BytesLength(g.ommers_hash)
    + BytesLength(g.beneficiary)
    + BytesLength(g.state_root)
    + BytesLength(g.transactions_root)
    + BytesLength(g.receipts_root)
    + BytesLength(g.logs_bloom)
    + U256Length(g.difficulty)
    + U256Length(g.number)
    + U256Length(g.gas_limit)
    + U256Length(g.gas_used)
    + U64Length(g.timestamp)

(* The thirteen fixed fields' share of header_payload_length. *)
FixedLength(g) ==
      BytesLength(g.parent_hash)
    + BytesLength(g.ommers_hash)
    + BytesLength(g.beneficiary)
    + BytesLength(g.state_root)
    + BytesLength(g.transactions_root)
    + BytesLength(g.receipts_root)
    + BytesLength(g.logs_bloom)
    + U256Length(g.difficulty)
    + U256Length(g.number)
    + U256Length(g.gas_limit)
    + U256Length(g.gas_used)
    + U64Length(g.timestamp)
    + BytesLength(g.extra_data)

(* GnosisHeader::header_payload_length *)
header_payload_length(g) == FixedLength(g) + VariantLength(g) + ForkLength(g)

(* <GnosisHeader as Encodable>::length *)
length(g) ==
    LET l == header_payload_length(g)
    IN  l + length_of_length(l)

(* A slip: gas_limit written a second time where gas_used belongs. *)
EncodeFixedFields_GasLimitTwice(g) ==
       BytesEncode(g.parent_hash)
    \o BytesEncode(g.ommers_hash)
    \o BytesEncode(g.beneficiary)
    \o BytesEncode(g.state_root)
    \o BytesEncode(g.transactions_root)
    \o BytesEncode(g.receipts_root)
    \o BytesEncode(g.logs_bloom)
    \o UintEncode(g.difficulty)
    \o UintEncode(g.number)
    \o UintEncode(g.gas_limit)
    \o UintEncode(g.gas_limit)
    \o UintEncode(g.timestamp)
    \o BytesEncode(g.extra_data)

(* A slip: parent_hash written a second time where ommers_hash belongs. *)
EncodeFixedFields_ParentHashTwice(g) ==
       BytesEncode(g.parent_hash)
    \o BytesEncode(g.parent_hash)
    \o BytesEncode(g.beneficiary)
    \o BytesEncode(g.state_root)
    \o BytesEncode(g.transactions_root)
    \o BytesEncode(g.receipts_root)
    \o BytesEncode(g.logs_bloom)
    \o UintEncode(g.difficulty)
    \o UintEncode(g.number)
    \o UintEncode(g.gas_limit)
    \o UintEncode(g.gas_used)
    \o UintEncode(g.timestamp)
    \o BytesEncode(g.extra_data)

(* The thirteen fixed fields as encode writes them. *)
EncodeFixedFields(g) ==
       BytesEncode(g.parent_hash)
    \o BytesEncode(g.ommers_hash)
    \o BytesEncode(g.beneficiary)
    \o BytesEncode(g.state_root)
    \o BytesEncode(g.transactions_root)
    \o BytesEncode(g.receipts_root)
    \o BytesEncode(g.logs_bloom)
    \o UintEncode(g.difficulty)
    \o UintEncode(g.number)
    \o UintEncode(g.gas_limit)
    \o UintEncode(g.gas_used)
    \o UintEncode(g.timestamp)
    \o BytesEncode(g.extra_data)

(* A slip: the aura fields preferred whenever both are populated. *)
EncodeVariant_AuraFirst(g) ==
    IF is_pre_merge(g)
    THEN UintEncode(unwrap(g.aura_step)) \o BytesEncode(unwrap(g.aura_seal))
    ELSE BytesEncode(unwrap(g.mix_hash)) \o BytesEncode(unwrap(g.nonce))

(* The consensus fields as encode writes them; the unwraps of the else  *)
(* branch panic on None, which EncodePanics states.                     *)
EncodeVariant(g) ==
    IF is_post_merge(g)
    THEN BytesEncode(unwrap(g.mix_hash)) \o BytesEncode(unwrap(g.nonce))
    ELSE UintEncode(unwrap(g.aura_step)) \o BytesEncode(unwrap(g.aura_seal))

(* A slip: all four consensus fields unwrapped, whichever branch is taken. *)
EncodePanics_AnyAbsent(g) ==
    \/ is_none(g.mix_hash) \/ is_none(g.nonce)
    \/ is_none(g.aura_step) \/ is_none(g.aura_seal)

EncodePanics(g) ==
    ~is_post_merge(g) /\ (is_none(g.aura_step) \/ is_none(g.aura_seal))

(* A slip: excess_blob_gas written before blob_gas_used. *)
EncodeForkFields_Swapped(g) ==
       (IF is_some(g.base_fee_per_gas)
        THEN UintEncode(unwrap(g.base_fee_per_gas)) ELSE <<>>)
    \o (IF is_some(g.withdrawals_root)
        THEN BytesEncode(unwrap(g.withdrawals_root)) ELSE <<>>)
    \o (IF is_some(g.excess_blob_gas)
        THEN UintEncode(unwrap(g.excess_blob_gas)) ELSE <<>>)
    \o (IF is_some(g.blob_gas_used)
        THEN UintEncode(unwrap(g.blob_gas_used)) ELSE <<>>)
    \o (IF is_some(g.parent_beacon_block_root)
        THEN BytesEncode(unwrap(g.parent_beacon_block_root)) ELSE <<>>)
    \o (IF is_some(g.requests_hash)
        THEN BytesEncode(unwrap(g.requests_hash)) ELSE <<>>)

(* A variant: an absent base_fee_per_gas that a populated field follows is *)
(* written as an empty string, so that the later field keeps its place.   *)
EncodeForkFields_Placeholder(g) ==
       (IF is_some(g.base_fee_per_gas)
        THEN UintEncode(unwrap(g.base_fee_per_gas))
        ELSE IF \E f \in {"withdrawals_root", "blob_gas_used", "excess_blob_gas",
                          "parent_beacon_block_root", "requests_hash"} :
                    is_some(g[f])
        THEN <<EMPTY_STRING_CODE>>
        ELSE <<>>)
    \o (IF is_some(g.withdrawals_root)
        THEN BytesEncode(unwrap(g.withdrawals_root)) ELSE <<>>)
    \o (IF is_some(g.blob_gas_used)
        THEN UintEncode(unwrap(g.blob_gas_used)) ELSE <<>>)
    \o (IF is_some(g.excess_blob_gas)
        THEN UintEncode(unwrap(g.excess_blob_gas)) ELSE <<>>)
    \o (IF is_some(g.parent_beacon_block_root)
        THEN BytesEncode(unwrap(g.parent_beacon_block_root)) ELSE <<>>)
    \o (IF is_some(g.requests_hash)
        THEN BytesEncode(unwrap(g.requests_hash)) ELSE <<>>)

(* The fork-specific fields as encode writes them. *)
EncodeForkFields(g) ==
       (IF is_some(g.base_fee_per_gas)
        THEN UintEncode(unwrap(g.base_fee_per_gas)) ELSE <<>>)
    \o (IF is_some(g.withdrawals_root)
        THEN BytesEncode(unwrap(g.withdrawals_root)) ELSE <<>>)
    \o (IF is_some(g.blob_gas_used)
        THEN UintEncode(unwrap(g.blob_gas_used)) ELSE <<>>)
    \o (IF is_some(g.excess_blob_gas)
        THEN UintEncode(unwrap(g.excess_blob_gas)) ELSE <<>>)
    \o (IF is_some(g.parent_beacon_block_root)
        THEN BytesEncode(unwrap(g.parent_beacon_block_root)) ELSE <<>>)
    \o (IF is_some(g.requests_hash)
        THEN BytesEncode(unwrap(g.requests_hash)) ELSE <<>>)

(* A slip: the fork-specific fields counted in the prefix but not written. *)
encode_ForkFieldsDropped(g) ==
    IF EncodePanics(g)
    THEN [panic |-> TRUE, bytes |-> <<>>]
    ELSE [panic |-> FALSE,
          bytes |-> HeaderEncode(TRUE, header_payload_length(g))
                    \o EncodeFixedFields(g)
                    \o EncodeVariant(g)]

(* <GnosisHeader as Encodable>::encode: what reaches the caller's sink, *)
(* or a panic before out.put_slice with nothing written.                *)
encode(g) ==
    IF EncodePanics(g)
    THEN [panic |-> TRUE, bytes |-> <<>>]
    ELSE [panic |-> FALSE,
          bytes |-> HeaderEncode(TRUE, header_payload_length(g))
                    \o EncodeFixedFields(g)
                    \o EncodeVariant(g)
                    \o EncodeForkFields(g)]

(* GnosisHeader::hash_slow *)
hash_slow(g) ==
    LET e == encode(g)
    IN  [panic |-> e.panic, hash |-> IF e.panic THEN <<>> ELSE keccak256(e.bytes)]

(* A slip: the hash taken over the list payload without its prefix. *)
sealable_hash_slow_PayloadOnly(g) ==
    [panic |-> EncodePanics(g),
     hash |-> IF EncodePanics(g) THEN <<>>
              ELSE keccak256(EncodeFixedFields(g) \o EncodeVariant(g)
                             \o EncodeForkFields(g))]

(* <GnosisHeader as Sealable>::hash_slow *)
sealable_hash_slow(g) ==
    LET e == encode(g)
    IN  [panic |-> e.panic, hash |-> IF e.panic THEN <<>> ELSE keccak256(e.bytes)]

(***************************************************************************)
(* <GnosisHeader as Decodable>::decode                                     *)
(*                                                                         *)
(* decode is straight-line code; the model runs it one field at a time.    *)
(* Its locals are a record: err ("" while no `?` has returned), at (the    *)
(* step whose `?` returned the error: the field being decoded,             *)
(* "list_header", "peek" or "finish"), i (the step to run next, an index   *)
(* of DecodeSteps), pos (the cursor), start (the cursor after the outer    *)
(* prefix, where started_len is taken), payload_length                     *)
(* (rlp_head.payload_length), this, branch (the arm of `if is_post_merge`  *)
(* taken), and tried (the fork-specific fields whose decode was called).   *)
(***************************************************************************)
FixedFieldOrder ==
    <<"parent_hash", "ommers_hash", "beneficiary", "state_root",
      "transactions_root", "receipts_root", "logs_bloom", "difficulty",
      "number", "gas_limit", "gas_used", "timestamp", "extra_data">>

ForkFieldOrder ==
    <<"base_fee_per_gas", "withdrawals_root", "blob_gas_used",
      "excess_blob_gas", "parent_beacon_block_root", "requests_hash">>

FixedFields == {FixedFieldOrder[i] : i \in 1..Len(FixedFieldOrder)}

ForkFields == {ForkFieldOrder[i] : i \in 1..Len(ForkFieldOrder)}

(* The statements of decode after the list header, in program order. *)
DecodeSteps == FixedFieldOrder \o <<"variant">> \o ForkFieldOrder \o <<"finish">>

(* The Decodable impl that each field's type selects. *)
FieldDecode(f, b, pos) ==
    CASE f \in {"parent_hash", "ommers_hash", "state_root", "transactions_root",
                "receipts_root", "withdrawals_root", "parent_beacon_block_root",
                "requests_hash", "mix_hash"} -> FixedDecode(B256Len, b, pos)
      [] f = "beneficiary" -> FixedDecode(AddressLen, b, pos)
      [] f = "logs_bloom" -> FixedDecode(BloomLen, b, pos)
      [] f = "nonce" -> FixedDecode(B64Len, b, pos)
      [] f \in {"difficulty", "aura_step"} -> U256Decode(b, pos)
      [] f \in {"number", "gas_limit", "gas_used", "timestamp",
                "base_fee_per_gas", "blob_gas_used", "excess_blob_gas"} ->
            U64Decode(b, pos)
      [] f \in {"extra_data", "aura_seal"} -> DecodeBytes(b, pos)

(* `this` as the struct literal of decode leaves the fields it has not read. *)
BlankHeader ==
    [parent_hash |-> <<>>, ommers_hash |-> <<>>, beneficiary |-> <<>>,
     state_root |-> <<>>, transactions_root |-> <<>>, receipts_root |-> <<>>,
     logs_bloom |-> <<>>, difficulty |-> <<>>, number |-> <<>>,
     gas_limit |-> <<>>, gas_used |-> <<>>, timestamp |-> <<>>,
     extra_data |-> <<>>,
     mix_hash |-> None, nonce |-> None, aura_step |-> None, aura_seal |-> None,
     base_fee_per_gas |-> None, withdrawals_root |-> None,
     blob_gas_used |-> None, excess_blob_gas |-> None,
     parent_beacon_block_root |-> None, requests_hash |-> None]

Raise(st, e, at, pos) == [st EXCEPT !.err = e, !.at = at, !.pos = pos]

(* The locals after the list header hd: started_len is taken at hd.pos. *)
ListHeaderRead(hd) ==
    [err |-> "", at |-> "", i |-> 1, pos |-> hd.pos, start |-> hd.pos,
     payload_length |-> hd.payload_length, this |-> BlankHeader,
     branch |-> "", tried |-> <<>>, expected |-> 0, got |-> 0]

(* A slip: the check that the prefix marks a list left out. *)
ListHeaderCheck_AnyPrefix(hd) ==
    IF hd.err # "" THEN Raise(ListHeaderRead(hd), hd.err, "list_header", hd.pos)
    ELSE ListHeaderRead(hd)

(* if !rlp_head.list { return Err(Error::UnexpectedString) } *)
ListHeaderCheck(hd) ==
    IF hd.err # "" THEN Raise(ListHeaderRead(hd), hd.err, "list_header", hd.pos)
    ELSE IF ~hd.list
    THEN Raise(ListHeaderRead(hd), "UnexpectedString", "list_header", hd.pos)
    ELSE ListHeaderRead(hd)

(* A lenient variant: a declared payload longer than the buffer is cut to *)
(* what the buffer holds instead of being refused.                       *)
DecodeListHeader_Clamped(b) ==
    IF HeaderDecode(b, 0).err = "InputTooShort" /\ HeaderDecode(b, 0).pos >= 2
    THEN ListHeaderRead([err |-> "", list |-> TRUE,
                         payload_length |-> Len(b) - HeaderDecode(b, 0).pos,
                         pos |-> HeaderDecode(b, 0).pos])
    ELSE ListHeaderCheck(HeaderDecode(b, 0))

(* A slip: started_len taken from the declared payload length instead of *)
(* the buffer, so that bytes after the list make the cursor lie before   *)
(* the start.                                                            *)
DecodeListHeader_StartFromPayload(b) ==
    IF ListHeaderCheck(HeaderDecode(b, 0)).err # ""
    THEN ListHeaderCheck(HeaderDecode(b, 0))
    ELSE [ListHeaderCheck(HeaderDecode(b, 0))
             EXCEPT !.start = Len(b) - HeaderDecode(b, 0).payload_length]

(* let rlp_head = Header::decode(buf)?; if !rlp_head.list { return Err(..) } *)
(* let started_len = buf.len();                                             *)
DecodeListHeader(b) == ListHeaderCheck(HeaderDecode(b, 0))

(* A lenient variant: a field that does not decode keeps its default and *)
(* decoding goes on after the item.                                      *)
Store_OrDefault(st, f, r) ==
    IF r.err # "" THEN [st EXCEPT !.pos = r.pos]
    ELSE [st EXCEPT !.this = [@ EXCEPT ![f] = r.val], !.pos = r.pos]

(* f: <r>?  in the struct literal: the `?`, then the field and the cursor. *)
Store(st, f, r) ==
    IF r.err # "" THEN Raise(st, r.err, f, r.pos)
    ELSE [st EXCEPT !.this = [@ EXCEPT ![f] = r.val], !.pos = r.pos]

(* this.f = Some(<r>?) *)
StoreSome(st, f, r) ==
    IF r.err # "" THEN Raise(st, r.err, f, r.pos)
    ELSE [st EXCEPT !.this = [@ EXCEPT ![f] = Some(r.val)], !.pos = r.pos]

(* One mandatory field: f: Decodable::decode(buf)? *)
DecodeInto(b, st, f) == Store(st, f, FieldDecode(f, b, st.pos))

(* One optional field: this.f = Some(Decodable::decode(buf)?) *)
DecodeSomeInto(b, st, f) == StoreSome(st, f, FieldDecode(f, b, st.pos))

(* A lenient variant: a seal shorter than 65 bytes is let through. *)
AuraSealCheck_AtMost(r) ==
    IF r.err # "" THEN r
    ELSE IF Len(r.val) > AuraSealLen
    THEN BytesFail("Custom: Failed to decode aura_seal as FixedBytes<65>", r.pos)
    ELSE r

(* FixedBytes::<65>::try_from(aura_seal_bytes.as_ref()).map_err(|_| Custom(..)) *)
AuraSealCheck(r) ==
    IF r.err # "" THEN r
    ELSE IF Len(r.val) # AuraSealLen
    THEN BytesFail("Custom: Failed to decode aura_seal as FixedBytes<65>", r.pos)
    ELSE r

(* let aura_seal_bytes = Bytes::decode(buf)?;                              *)
(* this.aura_seal = Some(FixedBytes::<65>::try_from(aura_seal_bytes)...?)  *)
DecodeAuraSeal(b, st) ==
    StoreSome(st, "aura_seal", AuraSealCheck(FieldDecode("aura_seal", b, st.pos)))

(* A slip: the 33 bytes of the encoded hash, prefix included. *)
PeekIsPostMerge_EncodedLen(next_head) == next_head.payload_length = B256Len + 1

(* A slip: anything that fits a hash taken for one. *)
PeekIsPostMerge_AtMost(next_head) == next_head.payload_length <= B256Len

(* let is_post_merge = next_head.payload_length == 32; *)
PeekIsPostMerge(next_head) == next_head.payload_length = B256Len

(* A lenient variant: a nonce that does not decode is left None. *)
DecodePostMerge_NonceOptional(b, st) ==
    IF DecodeSomeInto(b, st, "mix_hash").err # ""
    THEN DecodeSomeInto(b, st, "mix_hash")
    ELSE IF DecodeSomeInto(b, DecodeSomeInto(b, st, "mix_hash"), "nonce").err # ""
    THEN DecodeSomeInto(b, st, "mix_hash")
    ELSE DecodeSomeInto(b, DecodeSomeInto(b, st, "mix_hash"), "nonce")

(* this.mix_hash = Some(Decodable::decode(buf)?); *)
(* this.nonce = Some(B64::decode(buf)?);          *)
DecodePostMerge(b, st) ==
    IF DecodeSomeInto(b, st, "mix_hash").err # ""
    THEN DecodeSomeInto(b, st, "mix_hash")
    ELSE DecodeSomeInto(b, DecodeSomeInto(b, st, "mix_hash"), "nonce")

(* this.aura_step = Some(U256::decode(buf)?); then the aura_seal. *)
DecodePreMerge(b, st) ==
    IF DecodeSomeInto(b, st, "aura_step").err # ""
    THEN DecodeSomeInto(b, st, "aura_step")
    ELSE DecodeAuraSeal(b, DecodeSomeInto(b, st, "aura_step"))

(* if is_post_merge { .. } else { .. } on the peeked header next_head. *)
DecodeBranch(b, st, next_head) ==
    IF next_head.err # "" THEN Raise(st, next_head.err, "peek", st.pos)
    ELSE IF PeekIsPostMerge(next_head)
    THEN DecodePostMerge(b, [st EXCEPT !.branch = "post_merge"])
    ELSE DecodePreMerge(b, [st EXCEPT !.branch = "pre_merge"])

(* A slip: the peek made on buf itself, which moves the cursor past the *)
(* prefix it reads.                                                     *)
DecodeVariant_Consuming(b, st) ==
    DecodeBranch(b, [st EXCEPT !.pos = HeaderDecode(b, st.pos).pos],
                 HeaderDecode(b, st.pos))

(* let next_head = Header::decode(&mut &peek_slice[..])?: the peek reads *)
(* at the cursor and leaves it where it is.                              *)
DecodeVariant(b, st) == DecodeBranch(b, st, HeaderDecode(b, st.pos))

(* A slip: a field still tried when the payload is just used up. *)
ForkFieldDue_Inclusive(st) == st.pos - st.start <= st.payload_length

(* started_len - buf.len() < rlp_head.payload_length *)
ForkFieldDue(st) == st.pos - st.start < st.payload_length

(* A lenient variant: a fork-specific field that does not decode is left *)
(* None and the next one is tried on the same bytes.                     *)
DecodeForkField_Lenient(b, st, f) ==
    IF ForkFieldDue(st) /\ DecodeSomeInto(b, st, f).err = ""
    THEN DecodeSomeInto(b, [st EXCEPT !.tried = Append(@, f)], f)
    ELSE st

(* if started_len - buf.len() < rlp_head.payload_length { *)
(*     this.f = Some(Decodable::decode(buf)?); }          *)
DecodeForkField(b, st, f) ==
    IF ForkFieldDue(st)
    THEN DecodeSomeInto(b, [st EXCEPT !.tried = Append(@, f)], f)
    ELSE st

(* Err(ListLengthMismatch { expected: rlp_head.payload_length, got: consumed }) *)
LengthMismatch(st, consumed) ==
    [Raise(st, "ListLengthMismatch", "finish", st.pos)
        EXCEPT !.expected = st.payload_length, !.got = consumed]

(* A lenient variant: only a payload that was not read to its end is *)
(* refused.                                                           *)
DecodeFinish_Unread(st) ==
    IF st.pos - st.start < st.payload_length
    THEN LengthMismatch(st, st.pos - st.start)
    ELSE st

(* A slip: the finalization check left out. *)
DecodeFinish_Skipped(st) == st

(* let consumed = started_len - buf.len();                        *)
(* if consumed != rlp_head.payload_length { return Err(..) }      *)
DecodeFinish(st) ==
    IF st.pos - st.start # st.payload_length
    THEN LengthMismatch(st, st.pos - st.start)
    ELSE st

(* The statement s of decode. *)
DecodeStatement(b, st, s) ==
    CASE s \in FixedFields -> DecodeInto(b, st, s)
      [] s = "variant" -> DecodeVariant(b, st)
      [] s \in ForkFields -> DecodeForkField(b, st, s)
      [] s = "finish" -> DecodeFinish(st)

(* The statement at st.i, and on to the one after it. *)
DecodeNext(b, st) ==
    [DecodeStatement(b, st, DecodeSteps[st.i]) EXCEPT !.i = st.i + 1]

(* decode has returned: with Err(err), or with Ok(this) after the last step. *)
Returned(st) == st.err # "" \/ st.i > Len(DecodeSteps)

(* The Result of decode: Some(this) for Ok(this), None for Err. *)
Header_of(st) == IF st.err = "" THEN Some(st.this) ELSE None

(***************************************************************************)
(* Headers the codec is run on.  GnosisHeader's fields are public, so      *)
(* every combination of populated and absent optional fields can be built. *)
(***************************************************************************)

(* The longest extra_data tried. *)
MaxExtraLen == 57

(* get_sample_pre_merge_header / get_sample_post_merge_header: fixed fields. *)
SampleFixed ==
    [parent_hash |-> Rep(B256Len, 0), ommers_hash |-> Rep(B256Len, 0),
     beneficiary |-> Rep(AddressLen, 0), state_root |-> Rep(B256Len, 0),
     transactions_root |-> Rep(B256Len, 0), receipts_root |-> Rep(B256Len, 0),
     logs_bloom |-> Rep(BloomLen, 0), difficulty |-> <<3, 232>>,
     number |-> <<1>>, gas_limit |-> <<15, 66, 64>>, gas_used |-> <<7, 161, 32>>,
     timestamp |-> <<96, 182, 29, 88>>,
     extra_data |-> <<101, 120, 116, 114, 97, 32, 100, 97, 116, 97>>]

SampleMixHash ==
    <<102, 29, 165, 35, 243, 228, 71, 37, 243, 161, 206, 227, 129, 131, 211, 84,
      36, 21, 90, 5, 103, 70, 9, 169, 246, 237, 129, 36, 58, 223, 158, 38>>

SampleNonce == <<0, 0, 0, 0, 55, 239, 249, 212>>

SampleAuraStep == <<5, 209, 51, 169, 15, 215, 75>>

SampleAuraSeal ==
    <<115, 97, 109, 112, 108, 101, 95, 97, 117, 114, 97, 95, 115, 101, 97, 108, 95>>
    \o Rep(48, 48)

Variant(m, n, st, se) ==
    [mix_hash |-> m, nonce |-> n, aura_step |-> st, aura_seal |-> se]

PostMergeVariant == Variant(Some(SampleMixHash), Some(SampleNonce), None, None)

PreMergeVariant(step) == Variant(None, None, Some(step), Some(SampleAuraSeal))

(* U256 values of every digit count 0..32: 0xFF..FF and 0x0100..00, and  *)
(* the values around the one-byte boundary 0x80.                         *)
AuraSteps ==
    {Rep(n, 255) : n \in 0..U256Len}
    \cup {<<1>> \o Rep(n, 0) : n \in 0..(U256Len - 1)}
    \cup {<<42>>, <<127>>, <<128>>, SampleAuraStep}

FewAuraSteps ==
    {<<>>, <<42>>, Rep(16, 255), Rep(31, 255), <<1>> \o Rep(31, 0), Rep(32, 255)}

(* Every way of populating the four consensus slots. *)
AnyVariants ==
    {Variant(m, n, st, se) :
        m \in {None, Some(SampleMixHash)}, n \in {None, Some(SampleNonce)},
        st \in {None} \cup {Some(d) : d \in FewAuraSteps},
        se \in {None, Some(SampleAuraSeal)}}

Variants == AnyVariants \cup {PreMergeVariant(d) : d \in AuraSteps}

CoreVariants ==
    {PostMergeVariant, PreMergeVariant(SampleAuraStep),
     PreMergeVariant(<<1>> \o Rep(31, 0)),
     Variant(Some(SampleMixHash), Some(SampleNonce), Some(<<123>>),
             Some(SampleAuraSeal)),
     Variant(Some(SampleMixHash), None, Some(<<42>>), Some(SampleAuraSeal)),
     Variant(None, None, None, None)}

(* Two values for each fork-specific field. *)
ForkValue(f, alt) ==
    CASE f = "base_fee_per_gas" -> IF alt THEN <<>> ELSE <<1, 30, 252>>
      [] f = "withdrawals_root" -> IF alt THEN Rep(B256Len, 0) ELSE Rep(B256Len, 17)
      [] f = "blob_gas_used" -> IF alt THEN Rep(U64Len, 255) ELSE <<2, 0, 0>>
      [] f = "excess_blob_gas" -> IF alt THEN <<5>> ELSE <<128>>
      [] f = "parent_beacon_block_root" ->
            IF alt THEN Rep(B256Len, 255) ELSE Rep(B256Len, 34)
      [] f = "requests_hash" -> IF alt THEN Rep(B256Len, 1) ELSE Rep(B256Len, 51)

(* The fork-specific fields with exactly those of the set on populated. *)
Forks(on, alt) ==
    [f \in ForkFields |->
        IF f \in on THEN Some(ForkValue(f, alt)) ELSE None]

ForkPrefix(k) == {ForkFieldOrder[i] : i \in 1..k}

PrefixForks == {Forks(ForkPrefix(k), alt) : k \in 0..Len(ForkFieldOrder), alt \in BOOLEAN}

AnyForks ==
    {Forks(on, FALSE) : on \in SUBSET ForkFields}
    \cup PrefixForks

ExtraDatas ==
    {Rep(n, 255) : n \in 0..MaxExtraLen} \cup {<<0>>, <<5>>, <<127>>, <<128>>}

U64Values ==
    {<<>>, <<1>>, <<127>>, <<128>>, <<1, 0>>, <<15, 66, 64>>, Rep(U64Len, 255)}

(* Values each fixed field is varied over. *)
FixedValues(f) ==
    CASE f \in {"parent_hash", "ommers_hash", "state_root", "transactions_root",
                "receipts_root"} -> {Rep(B256Len, 0), Rep(B256Len, 255)}
      [] f = "beneficiary" -> {Rep(AddressLen, 0), Rep(AddressLen, 255)}
      [] f = "logs_bloom" -> {Rep(BloomLen, 0), Rep(BloomLen, 255)}
      [] f = "difficulty" ->
            {<<>>, <<127>>, <<128>>, <<3, 232>>, <<1>> \o Rep(31, 0), Rep(U256Len, 255)}
      [] f \in {"number", "gas_limit", "gas_used", "timestamp"} -> U64Values
      [] f = "extra_data" -> ExtraDatas

(* The sample's fixed fields with at most one of them changed. *)
FixedChoices ==
    {SampleFixed}
    \cup UNION {{[SampleFixed EXCEPT ![FixedFieldOrder[i]] = v] :
                     v \in FixedValues(FixedFieldOrder[i])} :
                 i \in 1..Len(FixedFieldOrder)}

Header(fx, va, fo) == fx @@ va @@ fo

Headers ==
    {Header(SampleFixed, va, fo) : va \in Variants, fo \in PrefixForks}
    \cup {Header(SampleFixed, va, fo) : va \in CoreVariants, fo \in AnyForks}
    \cup {Header(fx, va, fo) :
             fx \in FixedChoices,
             va \in {PostMergeVariant, PreMergeVariant(SampleAuraStep)},
             fo \in {Forks(ForkPrefix(k), FALSE) : k \in {0, 1, 6}}}

(***************************************************************************)
(* The codec as a caller runs it: encode h into the sink out, hand the     *)
(* bytes to decode as buf, keep its Result in res.                         *)
(***************************************************************************)
(* res before decode is called. *)
NoResult == [err |-> "", at |-> "", i |-> 0, pos |-> 0, start |-> 0,
             payload_length |-> 0, this |-> BlankHeader, branch |-> "",
             tried |-> <<>>, expected |-> 0, got |-> 0]

Init ==
    /\ h \in Headers
    /\ h2 = h
    /\ out = <<>>
    /\ out2 = <<>>
    /\ buf = <<>>
    /\ res = NoResult
    /\ hash1 = <<>>
    /\ hash2 = <<>>
    /\ pc = "start"

(* header.encode(&mut buf) *)
Encode ==
    /\ pc = "start"
    /\ LET e == encode(h)
       IN  IF e.panic
           THEN /\ pc' = "panicked"
                /\ UNCHANGED <<out, buf>>
           ELSE /\ pc' = "encoded"
                /\ out' = out \o e.bytes
                /\ buf' = out \o e.bytes
    /\ UNCHANGED <<h, h2, out2, res, hash1, hash2>>

(* GnosisHeader::decode(&mut &buf[..]): entry, through started_len. *)
DecodeBegin ==
    /\ pc \in {"encoded", "truncated", "crafted", "reencoded", "hashed"}
    /\ res' = DecodeListHeader(buf)
    /\ pc' = IF Returned(res') THEN "decoded" ELSE "decoding"
    /\ UNCHANGED <<h, h2, out, out2, buf, hash1, hash2>>

(* The next statement of decode; the call returns on Err and after the last. *)
DecodeStep ==
    /\ pc = "decoding"
    /\ res' = DecodeNext(buf, res)
    /\ pc' = IF Returned(res') THEN "decoded" ELSE "decoding"
    /\ UNCHANGED <<h, h2, out, out2, buf, hash1, hash2>>

Next == Encode \/ DecodeBegin \/ DecodeStep

Spec == Init /\ [][Next]_vars

(***************************************************************************)
(* A truncated buffer: the caller hands decode the first n bytes of an     *)
(* encoding.                                                               *)
(***************************************************************************)
TruncatedHeaders ==
    {Header(SampleFixed, va, fo) :
        va \in {PostMergeVariant, PreMergeVariant(SampleAuraStep)},
        fo \in {Forks(ForkPrefix(k), FALSE) : k \in {0, 6}}}

InitTruncated ==
    /\ h \in TruncatedHeaders
    /\ h2 = h
    /\ out = <<>>
    /\ out2 = <<>>
    /\ buf = <<>>
    /\ res = NoResult
    /\ hash1 = <<>>
    /\ hash2 = <<>>
    /\ pc = "start"

(* &buf[..n] for some n <= buf.len() *)
Truncate ==
    /\ pc = "encoded"
    /\ \E n \in 0..Len(out) : buf' = SubSeq(out, 1, n)
    /\ pc' = "truncated"
    /\ UNCHANGED <<h, h2, out, out2, res, hash1, hash2>>

NextTruncated == Encode \/ Truncate \/ DecodeBegin \/ DecodeStep

SpecTruncated == InitTruncated /\ [][NextTruncated]_vars

(***************************************************************************)
(* Two headers side by side: h and a clone of it with at most one field    *)
(* set to another value, each encoded and hashed.                          *)
(***************************************************************************)
FieldNames ==
    FixedFields \cup {"mix_hash", "nonce", "aura_step", "aura_seal"} \cup ForkFields

(* Values a field is set to. *)
FieldValues(f) ==
    CASE f = "mix_hash" -> {None, Some(SampleMixHash), Some(Rep(B256Len, 0))}
      [] f = "nonce" -> {None, Some(SampleNonce), Some(Rep(B64Len, 0))}
      [] f = "aura_step" ->
            {None} \cup {Some(d) : d \in FewAuraSteps \cup {<<123>>, SampleAuraStep}}
      [] f = "aura_seal" -> {None, Some(SampleAuraSeal), Some(Rep(AuraSealLen, 0))}
      [] f \in ForkFields ->
            {None, Some(ForkValue(f, FALSE)), Some(ForkValue(f, TRUE))}
      [] OTHER -> FixedValues(f)

PairFixed ==
    {[SampleFixed EXCEPT !.extra_data = e] :
        e \in {<<>>, <<5>>, <<128>>, Rep(55, 255), Rep(56, 255)}}

PairForks ==
    {Forks(ForkPrefix(k), FALSE) : k \in {0, 3, 6}}
    \cup {Forks({"blob_gas_used"}, FALSE),
          Forks({"base_fee_per_gas", "excess_blob_gas"}, FALSE)}

PairHeaders ==
    {Header(SampleFixed, va, fo) : va \in CoreVariants, fo \in PairForks}
    \cup {Header(fx, va, Forks({}, FALSE)) :
             fx \in PairFixed,
             va \in {PostMergeVariant, PreMergeVariant(SampleAuraStep)}}

InitPair ==
    /\ h \in PairHeaders
    /\ h2 = h
    /\ out = <<>>
    /\ out2 = <<>>
    /\ buf = <<>>
    /\ res = NoResult
    /\ hash1 = <<>>
    /\ hash2 = <<>>
    /\ pc = "start"

(* let mut modified = base.clone(); modified.f = v;  (v may be the old value) *)
Modify ==
    /\ pc = "encoded"
    /\ \E f \in FieldNames : \E v \in FieldValues(f) : h2' = [h EXCEPT ![f] = v]
    /\ pc' = "modified"
    /\ UNCHANGED <<h, out, out2, buf, res, hash1, hash2>>

(* modified.encode(&mut buf2) *)
EncodeModified ==
    /\ pc = "modified"
    /\ LET e == encode(h2)
       IN  IF e.panic
           THEN /\ pc' = "panicked2"
                /\ UNCHANGED out2
           ELSE /\ pc' = "encoded2"
                /\ out2' = out2 \o e.bytes
    /\ UNCHANGED <<h, h2, out, buf, res, hash1, hash2>>

(* base.hash_slow(), Sealable::hash_slow(&base), and the same of modified *)
HashBoth ==
    /\ pc = "encoded2"
    /\ hash1' = [inherent |-> hash_slow(h).hash, sealable |-> sealable_hash_slow(h).hash]
    /\ hash2' = [inherent |-> hash_slow(h2).hash, sealable |-> sealable_hash_slow(h2).hash]
    /\ pc' = "hashed"
    /\ UNCHANGED <<h, h2, out, out2, buf, res>>

NextPair == Encode \/ Modify \/ EncodeModified \/ HashBoth

SpecPair == InitPair /\ [][NextPair]_vars

(***************************************************************************)
(* Properties                                                              *)
(***************************************************************************)

(* All fields of exactly one consensus variant populated, none of the other. *)
VariantWellFormed(g) ==
    \/ /\ is_some(g.mix_hash) /\ is_some(g.nonce)
       /\ is_none(g.aura_step) /\ is_none(g.aura_seal)
    \/ /\ is_none(g.mix_hash) /\ is_none(g.nonce)
       /\ is_some(g.aura_step) /\ is_some(g.aura_seal)

(* The populated fork-specific fields are a prefix of the fixed order. *)
ForkIsPrefix(g) ==
    \A i \in 2..Len(ForkFieldOrder) :
        is_some(g[ForkFieldOrder[i]]) => is_some(g[ForkFieldOrder[i - 1]])

WellFormed(g) == VariantWellFormed(g) /\ ForkIsPrefix(g)

WellFormedPreMerge(g) == WellFormed(g) /\ is_pre_merge(g)

(* decode has returned on the bytes encode wrote for h. *)
RoundTripDone == pc = "decoded" /\ buf = out

DecodedOk == res.err = ""

(* C1: for every well-formed header h, encode(h) succeeds and              *)
(* decode(encode(h)) returns Ok with a header equal to h.                  *)
C1_RoundTrip ==
    WellFormed(h) =>
        /\ pc # "panicked"
        /\ RoundTripDone => (DecodedOk /\ Header_of(res) = Some(h))

(* C2: for every well-formed header h, the number of bytes encode writes   *)
(* equals length(h) = header_payload_length(h) + the outer prefix's size.  *)
C2_LengthConsistency ==
    (WellFormed(h) /\ pc \notin {"start", "panicked"}) =>
        /\ Len(out) = length(h)
        /\ Len(out) = header_payload_length(h)
                      + Len(HeaderEncode(TRUE, header_payload_length(h)))

C2_Witness ==
    /\ pc = "encoded" /\ WellFormed(h) /\ is_some(h.requests_hash)
    /\ is_pre_merge(h) /\ Len(out) = length(h)

(* C3: a header encoded on the pre-merge path whose aura_step has a        *)
(* 32-byte payload is decoded on the post-merge branch: the 32 bytes are   *)
(* read as mix_hash, aura_step and aura_seal are never read.               *)
C3_AuraStep32TakenForMixHash ==
    (RoundTripDone /\ ~is_post_merge(h) /\ is_pre_merge(h)
     /\ Len(unwrap(h.aura_step)) = B256Len) =>
        /\ res.branch = "post_merge"
        /\ res.this.mix_hash = Some(unwrap(h.aura_step))
        /\ is_none(res.this.aura_step) /\ is_none(res.this.aura_seal)

C3_Witness ==
    /\ RoundTripDone /\ WellFormedPreMerge(h)
    /\ h.aura_step = Some(<<1>> \o Rep(31, 0))
    /\ res.branch = "post_merge"

(* C4: every well-formed pre-merge header whose aura_step payload is not   *)
(* 32 bytes long round-trips, and the decoded header is pre-merge with     *)
(* mix_hash None.                                                          *)
C4_OtherAuraStepsRoundTrip ==
    (RoundTripDone /\ WellFormedPreMerge(h)
     /\ Len(unwrap(h.aura_step)) # B256Len) =>
        /\ DecodedOk
        /\ Header_of(res) = Some(h)
        /\ is_pre_merge(res.this)
        /\ is_none(res.this.mix_hash)

C4_Witness ==
    /\ RoundTripDone /\ WellFormedPreMerge(h)
    /\ h.aura_step = Some(Rep(16, 255))
    /\ DecodedOk /\ Header_of(res) = Some(h)

(* C5: when the encoding of a well-formed header with exactly the first k  *)
(* fork-specific fields populated decodes successfully, the decoded header *)
(* has those k fields with the same values and the other 6 - k None.       *)
C5_ForkPrefixPreserved ==
    (RoundTripDone /\ WellFormed(h) /\ DecodedOk) =>
        \A f \in ForkFields : res.this[f] = h[f]

C5_Witness ==
    /\ RoundTripDone /\ WellFormed(h) /\ DecodedOk
    /\ \A f \in ForkFields : is_some(h[f]) /\ res.this[f] = h[f]
    /\ h.blob_gas_used # h.excess_blob_gas

(* C6, as claimed: for every header whose populated fork-specific fields   *)
(* are not a prefix of the fixed order, encode succeeds and                *)
(* decode(encode(h)) never returns a header equal to h.                    *)
C6_Original ==
    ~ForkIsPrefix(h) =>
        /\ pc # "panicked"
        /\ RoundTripDone => Header_of(res) # Some(h)

(* C6, amended: the same for every such header with a fully populated      *)
(* consensus pair (mix_hash and nonce, or aura_step and aura_seal).        *)
C6_NonPrefixForksNotPreserved ==
    (~ForkIsPrefix(h) /\ (is_post_merge(h) \/ is_pre_merge(h))) =>
        /\ pc # "panicked"
        /\ RoundTripDone => Header_of(res) # Some(h)

C6_Witness ==
    /\ RoundTripDone /\ ~ForkIsPrefix(h) /\ VariantWellFormed(h)
    /\ DecodedOk /\ Header_of(res) # Some(h)
    /\ is_some(h.blob_gas_used) /\ res.this.base_fee_per_gas = h.blob_gas_used

(* The fields in which the modified header differs from the base one. *)
ChangedFields == {f \in FieldNames : h2[f] # h[f]}

(* The fields encode writes for g (a fork-specific one only when Some). *)
Emitted(g) ==
    FixedFields \cup ForkFields
    \cup (IF is_post_merge(g) THEN {"mix_hash", "nonce"}
                              ELSE {"aura_step", "aura_seal"})

(* Both headers encoded and hashed. *)
PairDone == pc = "hashed"

C8_Original ==
    (PairDone /\ h2 # h) =>
        /\ out2 # out
        /\ hash2.inherent # hash1.inherent
        /\ hash2.sealable # hash1.sealable

(* C8, amended: changing the value of a single field changes the bytes and *)
(* the hash whenever encode succeeds on both headers and the field is one  *)
(* that encode writes for at least one of them (so not aura_step/aura_seal *)
(* while mix_hash and nonce are both set, and not mix_hash/nonce while one *)
(* of them is None on both headers).                                       *)
C8_EmittedFieldChangesHash ==
    (PairDone /\ \E f \in ChangedFields : f \in Emitted(h) \cup Emitted(h2)) =>
        /\ out2 # out
        /\ hash2.inherent # hash1.inherent
        /\ hash2.sealable # hash1.sealable

C8_Witness ==
    /\ PairDone /\ ChangedFields = {"gas_used"}
    /\ out2 # out /\ hash2.inherent # hash1.inherent

(* C9, as claimed: for two headers that differ only in extra_data, the     *)
(* difference of the encoded lengths equals the difference of the byte     *)
(* lengths of the two extra_data values.                                   *)
C9_Original ==
    (PairDone /\ ChangedFields = {"extra_data"}) =>
        Len(out2) + Len(h.extra_data) = Len(out) + Len(h2.extra_data)

(* An extra_data whose encoding is one prefix byte followed by its bytes. *)
PlainExtra(e) == Len(e) <= 55 /\ ~(Len(e) = 1 /\ e[1] < EMPTY_STRING_CODE)

(* C9, amended: the same, in bytes written and in length(), when each of   *)
(* the two extra_data values is at most 55 bytes long and is not a single  *)
(* byte below 0x80.                                                        *)
C9_ExtraDataDelta ==
    (PairDone /\ ChangedFields = {"extra_data"}
     /\ PlainExtra(h.extra_data) /\ PlainExtra(h2.extra_data)) =>
        /\ Len(out2) + Len(h.extra_data) = Len(out) + Len(h2.extra_data)
        /\ length(h2) + Len(h.extra_data) = length(h) + Len(h2.extra_data)

C9_Witness ==
    /\ PairDone /\ ChangedFields = {"extra_data"}
    /\ PlainExtra(h.extra_data) /\ Len(h2.extra_data) = 55
    /\ Len(out2) > Len(out)

(* decode has returned on a buffer that holds the outer prefix of an       *)
(* encoding and fewer payload bytes than that prefix declares.             *)
TruncatedDone ==
    /\ pc = "decoded"
    /\ Len(buf) < Len(out)
    /\ Len(buf) >= Len(HeaderEncode(TRUE, header_payload_length(h)))

C11_EncodePanicsExactly ==
    pc # "start" =>
        /\ (pc = "panicked") <=> (~is_post_merge(h) /\ ~is_pre_merge(h))
        /\ (pc = "panicked") => (out = <<>> /\ buf = <<>>)

C11_Witness ==
    /\ pc = "panicked" /\ out = <<>>
    /\ is_some(h.mix_hash) /\ is_none(h.nonce)
    /\ is_some(h.aura_step) /\ is_none(h.aura_seal)

(***************************************************************************)
(* Conversions to and from alloy_consensus::Header, whose mix_hash and     *)
(* nonce are plain values and which has no aura_step and no aura_seal.     *)
(***************************************************************************)
(* The fields GnosisHeader and Header share with the same type. *)
SharedFields == FixedFields \cup ForkFields

(* Header { f: self.f, .., mix_hash: self.mix_hash.unwrap(),    *)
(*          nonce: self.nonce.unwrap(), .. }                    *)
AlloyHeaderOf(g) ==
    [f \in SharedFields \cup {"mix_hash", "nonce"} |->
        IF f \in SharedFields THEN g[f] ELSE unwrap(g[f])]

(* A lenient variant: an absent mix_hash or nonce replaced by zeroes. *)
to_alloy_header_OrDefault(g) ==
    [panic |-> FALSE,
     header |-> Some([f \in SharedFields \cup {"mix_hash", "nonce"} |->
                         IF f \in SharedFields THEN g[f]
                         ELSE IF is_some(g[f]) THEN unwrap(g[f])
                         ELSE IF f = "mix_hash" THEN Rep(B256Len, 0)
                         ELSE Rep(B64Len, 0)])]

(* GnosisHeader::to_alloy_header: panics, or returns the Header. *)
to_alloy_header(g) ==
    IF is_none(g.mix_hash) \/ is_none(g.nonce)
    THEN [panic |-> TRUE, header |-> None]
    ELSE [panic |-> FALSE, header |-> Some(AlloyHeaderOf(g))]

(* <Header as From<GnosisHeader>>::from *)
into_alloy_header(gnosis_header) ==
    IF is_none(gnosis_header.mix_hash) \/ is_none(gnosis_header.nonce)
    THEN [panic |-> TRUE, header |-> None]
    ELSE [panic |-> FALSE, header |-> Some(AlloyHeaderOf(gnosis_header))]

(* A slip: the aura fields given default values instead of None. *)
from_alloy_header_AuraDefault(inner) ==
    [f \in FieldNames |->
        IF f \in SharedFields THEN inner[f]
        ELSE IF f \in {"mix_hash", "nonce"} THEN Some(inner[f])
        ELSE IF f = "aura_step" THEN Some(<<>>)
        ELSE None]

(* <GnosisHeader as From<Header>>::from *)
from_alloy_header(inner) ==
    [f \in FieldNames |->
        IF f \in SharedFields THEN inner[f]
        ELSE IF f \in {"mix_hash", "nonce"} THEN Some(inner[f])
        ELSE None]

(***************************************************************************)
(* reth_codecs::Compact.  CompactHeader is the shadow record: the fields   *)
(* of GnosisHeader with nonce an Option<u64>.  Its derived codec writes a  *)
(* bitflag header (the byte length of every integer, the presence of every *)
(* Option), then the fields in declaration order, extra_data last.         *)
(***************************************************************************)
RECURSIVE StripZeros(_)
(* The significant bytes of a big-endian number: u64::from_be_bytes. *)
StripZeros(b) ==
    IF b = <<>> THEN <<>>
    ELSE IF b[1] = 0 THEN StripZeros(Tail(b))
    ELSE b

(* u64::from(B64): the eight bytes read as a big-endian number. *)
B64ToU64(n) == StripZeros(n)

(* A slip: the number left-aligned in the eight bytes. *)
U64ToB64_LeftAligned(n) == n \o Rep(B64Len - Len(n), 0)

(* B64::from(u64): the number's to_be_bytes. *)
U64ToB64(n) == Rep(B64Len - Len(n), 0) \o n

(* nonce: if let Some(n) = self.nonce { Some(n.into()) } else { None } *)
NonceToCompact(o) == IF is_some(o) THEN Some(B64ToU64(unwrap(o))) ELSE None

(* nonce: if let Some(n) = header.nonce { Some(n.into()) } else { None } *)
NonceFromCompact(o) == IF is_some(o) THEN Some(U64ToB64(unwrap(o))) ELSE None

(* let header = CompactHeader { f: self.f, .., nonce: .., .. } *)
CompactHeaderOf(g) == [g EXCEPT !.nonce = NonceToCompact(g.nonce)]

(* Self { f: header.f, .., nonce: .., .. } *)
HeaderOfCompact(header) == [header EXCEPT !.nonce = NonceFromCompact(header.nonce)]

(* CompactHeader's fields in declaration order. *)
CompactFieldOrder ==
    <<"parent_hash", "ommers_hash", "beneficiary", "state_root",
      "transactions_root", "receipts_root", "withdrawals_root", "logs_bloom",
      "difficulty", "number", "gas_limit", "gas_used", "timestamp",
      "mix_hash", "nonce", "aura_step", "aura_seal", "base_fee_per_gas",
      "blob_gas_used", "excess_blob_gas", "parent_beacon_block_root",
      "requests_hash", "extra_data">>

(* Option<B256> fields: written as the 32 bytes, no length. *)
CompactOptionalHashes ==
    {"withdrawals_root", "mix_hash", "parent_beacon_block_root", "requests_hash"}

(* The other Option fields: written as a length byte and the value. *)
CompactOptionalValues ==
    {"nonce", "aura_step", "aura_seal", "base_fee_per_gas", "blob_gas_used",
     "excess_blob_gas"}

(* Integers: written without leading zeroes, the length kept in the flags. *)
CompactIntegers == {"difficulty", "number", "gas_limit", "gas_used", "timestamp"}

(* The bits a field takes in the bitflag header. *)
CompactFlagWidth(f) ==
    IF f \in CompactOptionalHashes \cup CompactOptionalValues THEN 1
    ELSE IF f = "difficulty" THEN 6
    ELSE IF f \in CompactIntegers THEN 4
    ELSE 0

(* The value of a field's flag: presence, or byte length. *)
CompactFlag(c, f) ==
    IF f \in CompactOptionalHashes \cup CompactOptionalValues
    THEN (IF is_some(c[f]) THEN 1 ELSE 0)
    ELSE IF f \in CompactIntegers THEN Len(c[f])
    ELSE 0

(* n as w bits, least significant first. *)
Bits(n, w) == [i \in 1..w |-> (n \div (2 ^ (i - 1))) % 2]

RECURSIVE BitsValue(_, _, _)
(* The number held by the w bits after the first off of bits. *)
BitsValue(bits, off, w) ==
    IF w = 0 THEN 0 ELSE bits[off + 1] + 2 * BitsValue(bits, off + 1, w - 1)

RECURSIVE CompactFlagBits(_, _)
(* The flags of the fields from the i-th on, one after the other. *)
CompactFlagBits(c, i) ==
    IF i > Len(CompactFieldOrder) THEN <<>>
    ELSE Bits(CompactFlag(c, CompactFieldOrder[i]),
              CompactFlagWidth(CompactFieldOrder[i]))
         \o CompactFlagBits(c, i + 1)

(* Bits packed eight to a byte. *)
PackBits(bits) ==
    [k \in 1..(Len(bits) \div 8) |-> BitsValue(bits, 8 * (k - 1), 8)]

(* The bits of a byte string, least significant first in each byte. *)
UnpackBits(bytes) ==
    [j \in 1..(8 * Len(bytes)) |->
        (bytes[((j - 1) \div 8) + 1] \div (2 ^ ((j - 1) % 8))) % 2]

RECURSIVE CompactFlagOffset(_)
(* Where the flag of the i-th field starts in the bitflag header. *)
CompactFlagOffset(i) ==
    IF i = 1 THEN 0
    ELSE CompactFlagOffset(i - 1) + CompactFlagWidth(CompactFieldOrder[i - 1])

(* The bitflag header's size in bytes. *)
CompactFlagBytes == CompactFlagOffset(Len(CompactFieldOrder) + 1) \div 8

(* One field as the derived to_compact writes it. *)
CompactFieldBytes(c, f) ==
    IF f \in CompactOptionalHashes
    THEN (IF is_some(c[f]) THEN unwrap(c[f]) ELSE <<>>)
    ELSE IF f \in CompactOptionalValues
    THEN (IF is_some(c[f]) THEN <<Len(unwrap(c[f]))>> \o unwrap(c[f]) ELSE <<>>)
    ELSE c[f]

RECURSIVE CompactBody(_, _)
(* The fields from the i-th on as the derived to_compact writes them. *)
CompactBody(c, i) ==
    IF i > Len(CompactFieldOrder) THEN <<>>
    ELSE CompactFieldBytes(c, CompactFieldOrder[i]) \o CompactBody(c, i + 1)

(* CompactHeader::to_compact (derived): flags, then fields. *)
CompactHeader_to_compact(c) == PackBits(CompactFlagBits(c, 1)) \o CompactBody(c, 1)

(* The bytes a field without a flag takes. *)
CompactFixedLen(f) ==
    IF f = "beneficiary" THEN AddressLen
    ELSE IF f = "logs_bloom" THEN BloomLen
    ELSE B256Len

(* The derived from_compact at one field: flag is the field's flag, len  *)
(* the bytes left for the header.                                         *)
CompactFieldRead(b, flag, len, st, f) ==
    IF f \in CompactOptionalHashes
    THEN (IF flag = 0 THEN [st EXCEPT !.this = [@ EXCEPT ![f] = None]]
          ELSE [pos |-> st.pos + B256Len,
                this |-> [st.this EXCEPT
                             ![f] = Some(SubSeq(b, st.pos + 1, st.pos + B256Len))]])
    ELSE IF f \in CompactOptionalValues
    THEN (IF flag = 0 THEN [st EXCEPT !.this = [@ EXCEPT ![f] = None]]
          ELSE [pos |-> st.pos + 1 + b[st.pos + 1],
                this |-> [st.this EXCEPT
                             ![f] = Some(IF f = "aura_seal"
                                         THEN SubSeq(b, st.pos + 2,
                                                     st.pos + 1 + b[st.pos + 1])
                                         ELSE StripZeros(SubSeq(b, st.pos + 2,
                                                     st.pos + 1 + b[st.pos + 1])))]])
    ELSE IF f \in CompactIntegers
    THEN [pos |-> st.pos + flag,
          this |-> [st.this EXCEPT
                       ![f] = StripZeros(SubSeq(b, st.pos + 1, st.pos + flag))]]
    ELSE IF f = "extra_data"
    THEN [pos |-> len, this |-> [st.this EXCEPT ![f] = SubSeq(b, st.pos + 1, len)]]
    ELSE [pos |-> st.pos + CompactFixedLen(f),
          this |-> [st.this EXCEPT
                       ![f] = SubSeq(b, st.pos + 1, st.pos + CompactFixedLen(f))]]

RECURSIVE CompactReadFrom(_, _, _, _, _)
(* The derived from_compact from the i-th field on. *)
CompactReadFrom(b, bits, len, st, i) ==
    IF i > Len(CompactFieldOrder) THEN st
    ELSE CompactReadFrom(
             b, bits, len,
             CompactFieldRead(b,
                 BitsValue(bits, CompactFlagOffset(i),
                           CompactFlagWidth(CompactFieldOrder[i])),
                 len, st, CompactFieldOrder[i]),
             i + 1)

(* CompactHeader::from_compact(buf, len) (derived): the record and the *)
(* position the cursor is left at.                                     *)
CompactHeader_from_compact(b, len) ==
    CompactReadFrom(b, UnpackBits(SubSeq(b, 1, CompactFlagBytes)), len,
                    [pos |-> CompactFlagBytes, this |-> BlankHeader], 1)

(* <GnosisHeader as Compact>::to_compact: the bytes put into buf. *)
to_compact(g) == CompactHeader_to_compact(CompactHeaderOf(g))

(* A variant: the remainder the shadow record's from_compact returns is *)
(* passed on, as a derived Compact would.                              *)
from_compact_Advanced(b, len) ==
    [header |-> HeaderOfCompact(CompactHeader_from_compact(b, len).this),
     rest |-> SubSeq(b, CompactHeader_from_compact(b, len).pos + 1, Len(b))]

(* <GnosisHeader as Compact>::from_compact: (header, buf). *)
from_compact(b, len) ==
    [header |-> HeaderOfCompact(CompactHeader_from_compact(b, len).this),
     rest |-> b]

(* Compress::compress: to_compact into a fresh Vec. *)
compress(g) == to_compact(g)

(* Decompress::decompress: let (obj, _) = from_compact(value, value.len()) *)
decompress(value) == from_compact(value, Len(value)).header

(***************************************************************************)
(* The conversions as a caller runs them on a header h: to the canonical   *)
(* header and back, to the compact form and back.                          *)
(***************************************************************************)
NonceValues ==
    {SampleNonce, Rep(B64Len, 0), Rep(B64Len, 255),
     Rep(B64Len - 1, 0) \o <<42>>, <<1>> \o Rep(B64Len - 1, 0)}

ConvertHeaders ==
    {Header(SampleFixed, va, fo) : va \in AnyVariants, fo \in PrefixForks}
    \cup {Header(SampleFixed, va, Forks(on, FALSE)) :
             va \in CoreVariants, on \in SUBSET ForkFields}
    \cup {Header(fx, Variant(Some(SampleMixHash), Some(n), None, None),
                 Forks({}, FALSE)) :
             fx \in FixedChoices, n \in NonceValues}

InitConvert ==
    /\ h \in ConvertHeaders
    /\ h2 = h
    /\ out = <<>>
    /\ out2 = <<>>
    /\ buf = <<>>
    /\ res = [to_alloy_header |-> [panic |-> FALSE, header |-> None],
              into |-> [panic |-> FALSE, header |-> None]]
    /\ hash1 = <<>>
    /\ hash2 = <<>>
    /\ pc = "start"

(* header.to_alloy_header() and Header::from(header) *)
ToAlloy ==
    /\ pc = "start"
    /\ res' = [to_alloy_header |-> to_alloy_header(h), into |-> into_alloy_header(h)]
    /\ pc' = IF res'.to_alloy_header.panic \/ res'.into.panic
             THEN "alloy_panicked" ELSE "alloy"
    /\ UNCHANGED <<h, h2, out, out2, buf, hash1, hash2>>

(* GnosisHeader::from(alloy_header) *)
FromAlloy ==
    /\ pc = "alloy"
    /\ h2' = from_alloy_header(unwrap(res.to_alloy_header.header))
    /\ pc' = "alloy_back"
    /\ UNCHANGED <<h, out, out2, buf, res, hash1, hash2>>

(* header.to_compact(&mut buf) *)
ToCompact ==
    /\ pc = "start"
    /\ buf' = buf \o to_compact(h)
    /\ pc' = "compact"
    /\ UNCHANGED <<h, h2, out, out2, res, hash1, hash2>>

(* GnosisHeader::from_compact(&buf, buf.len()) *)
FromCompact ==
    /\ pc = "compact"
    /\ h2' = from_compact(buf, Len(buf)).header
    /\ out2' = from_compact(buf, Len(buf)).rest
    /\ pc' = "compact_back"
    /\ UNCHANGED <<h, out, buf, res, hash1, hash2>>

(* header.compress() *)
Compress ==
    /\ pc = "start"
    /\ out' = compress(h)
    /\ pc' = "compressed"
    /\ UNCHANGED <<h, h2, out2, buf, res, hash1, hash2>>

(* GnosisHeader::decompress(&compressed) *)
Decompress ==
    /\ pc = "compressed"
    /\ h2' = decompress(out)
    /\ pc' = "decompressed"
    /\ UNCHANGED <<h, out, out2, buf, res, hash1, hash2>>

NextConvert ==
    ToAlloy \/ FromAlloy \/ ToCompact \/ FromCompact \/ Compress \/ Decompress

SpecConvert == InitConvert /\ [][NextConvert]_vars

(* C12: to_alloy_header and Header::from succeed if and only if mix_hash   *)
(* and nonce are both populated; otherwise they panic and no header, with  *)
(* a default in place of the absent value or otherwise, comes back.        *)
C12_ToAlloyPanicsExactly ==
    pc \in {"alloy", "alloy_panicked"} =>
        /\ res.to_alloy_header.panic <=> (is_none(h.mix_hash) \/ is_none(h.nonce))
        /\ res.into.panic <=> (is_none(h.mix_hash) \/ is_none(h.nonce))
        /\ res.to_alloy_header.panic <=> is_none(res.to_alloy_header.header)
        /\ res.into.panic <=> is_none(res.into.header)
        /\ (pc = "alloy") =>
              /\ unwrap(res.to_alloy_header.header).mix_hash = unwrap(h.mix_hash)
              /\ unwrap(res.to_alloy_header.header).nonce = unwrap(h.nonce)
              /\ res.into.header = res.to_alloy_header.header

C12_Witness ==
    /\ pc = "alloy_panicked" /\ is_some(h.mix_hash) /\ is_none(h.nonce)
    /\ res.to_alloy_header.panic /\ res.into.panic

(* C13: for every header g with mix_hash and nonce populated, converting   *)
(* to the canonical header and back does not fail and gives a header with  *)
(* g's 13 fixed fields, mix_hash, nonce and six fork-specific fields, and  *)
(* with aura_step and aura_seal None.                                      *)
C13_CanonicalRoundTrip ==
    /\ (pc = "start" /\ is_post_merge(h)) => ~to_alloy_header(h).panic
    /\ (pc = "alloy_back") =>
          /\ is_post_merge(h)
          /\ \A f \in FixedFields \cup ForkFields \cup {"mix_hash", "nonce"} :
                h2[f] = h[f]
          /\ is_none(h2.aura_step) /\ is_none(h2.aura_seal)
          /\ is_post_merge(h2) /\ ~is_pre_merge(h2)

C13_Witness ==
    /\ pc = "alloy_back" /\ is_some(h.aura_step) /\ is_some(h.aura_seal)
    /\ is_some(h.requests_hash) /\ h2.requests_hash = h.requests_hash
    /\ is_none(h2.aura_step)

(* C14: for every header h, pre-merge or post-merge, from_compact of       *)
(* to_compact(h) and decompress of compress(h) return a header equal to h; *)
(* the shadow record holds every field of h unchanged but nonce, which     *)
(* goes B64 -> u64 -> B64 without loss, an absent nonce staying absent.    *)
C14_CompactRoundTrip ==
    /\ (pc \in {"compact_back", "decompressed"}) => h2 = h
    /\ \A f \in FieldNames \ {"nonce"} : CompactHeaderOf(h)[f] = h[f]
    /\ HeaderOfCompact(CompactHeaderOf(h)) = h
    /\ is_none(h.nonce) <=> is_none(CompactHeaderOf(h).nonce)

C14_Witness ==
    /\ pc = "compact_back" /\ h2 = h
    /\ h.nonce = Some(Rep(B64Len - 1, 0) \o <<42>>)
    /\ CompactHeaderOf(h).nonce = Some(<<42>>)

(***************************************************************************)
(* decode on byte strings that need not be encodings: an outer prefix, the *)
(* sample's thirteen fixed fields, then any items.                         *)
(***************************************************************************)
(* Items that may follow the fixed fields: a 32-byte string, an 8-byte     *)
(* string, a small integer, zero, strings of 65, 64 and 66 bytes, a list   *)
(* with a 32-byte payload, a non-canonical single byte, an empty list.     *)
CraftedItems ==
    {BytesEncode(SampleMixHash), BytesEncode(SampleNonce), <<42>>,
     <<EMPTY_STRING_CODE>>, BytesEncode(SampleAuraSeal),
     BytesEncode(Rep(AuraSealLen - 1, 1)), BytesEncode(Rep(AuraSealLen + 1, 1)),
     <<EMPTY_LIST_CODE + B256Len>> \o Rep(B256Len, 0),
     <<EMPTY_STRING_CODE + 1, 5>>, <<EMPTY_LIST_CODE>>}

(* What stands where the consensus fields are expected: up to two items. *)
CraftedVariants ==
    {<<>>} \cup CraftedItems \cup {a \o b : a \in CraftedItems, b \in CraftedItems}

(* What follows: nothing, some fork-specific fields, a seventh item after *)
(* the six, or a hash where base_fee_per_gas is expected.                 *)
CraftedRests ==
    {EncodeForkFields(Forks(ForkPrefix(k), FALSE)) : k \in {0, 1, 2, 6}}
    \cup {EncodeForkFields(Forks(ForkFields, FALSE)) \o <<42>>,
          BytesEncode(SampleMixHash)}

(* The payload lengths the outer prefix may declare for a body: its       *)
(* length, one byte less, and the lengths that end right after and one    *)
(* byte after the fixed fields.                                           *)
CraftedDeclared(body) ==
    {Len(body), Len(body) - 1, Len(EncodeFixedFields(SampleFixed)),
     Len(EncodeFixedFields(SampleFixed)) + 1} \cap 0..Len(body)

CraftedBodies ==
    {EncodeFixedFields(SampleFixed) \o v \o r :
        v \in CraftedVariants, r \in CraftedRests}

(* One fixed field of g as encode writes it. *)
FixedFieldBytes(g, f) ==
    IF f \in {"difficulty", "number", "gas_limit", "gas_used", "timestamp"}
    THEN UintEncode(g[f])
    ELSE BytesEncode(g[f])

RECURSIVE FixedFieldsBytes(_, _, _)
(* The i-th to the j-th fixed field of g as encode writes them. *)
FixedFieldsBytes(g, i, j) ==
    IF i > j THEN <<>>
    ELSE FixedFieldBytes(g, FixedFieldOrder[i]) \o FixedFieldsBytes(g, i + 1, j)

(* Items no fixed field's type accepts, or only some do: a 31-byte string, *)
(* an empty list, an integer with a leading zero, a non-canonical single   *)
(* byte, a 33-byte string.                                                 *)
BrokenItems ==
    {BytesEncode(Rep(B256Len - 1, 1)), <<EMPTY_LIST_CODE>>,
     <<EMPTY_STRING_CODE + 2, 0, 1>>, <<EMPTY_STRING_CODE + 1, 5>>,
     BytesEncode(Rep(B256Len + 1, 1))}

(* The sample post-merge header's payload with the k-th fixed field *)
(* replaced by the item bad.                                        *)
BrokenBody(k, bad) ==
    FixedFieldsBytes(SampleFixed, 1, k - 1) \o bad
    \o FixedFieldsBytes(SampleFixed, k + 1, Len(FixedFieldOrder))
    \o BytesEncode(SampleMixHash) \o BytesEncode(SampleNonce)

BrokenInputs ==
    {HeaderEncode(TRUE, Len(BrokenBody(k, bad))) \o BrokenBody(k, bad) :
        k \in 1..Len(FixedFieldOrder), bad \in BrokenItems}

(* The shortest inputs: nothing, an empty list, an empty string, one byte. *)
TinyInputs == {<<>>, <<EMPTY_LIST_CODE>>, <<EMPTY_STRING_CODE>>, <<5>>}

(* Whole payloads: the sample's fixed fields, one consensus variant and a *)
(* prefix of the fork-specific fields.                                   *)
WholeBodies ==
    {EncodeFixedFields(SampleFixed) \o v
        \o EncodeForkFields(Forks(ForkPrefix(k), FALSE)) :
        v \in {BytesEncode(SampleMixHash) \o BytesEncode(SampleNonce),
               <<42>> \o BytesEncode(SampleAuraSeal),
               <<EMPTY_STRING_CODE>> \o BytesEncode(SampleAuraSeal)},
        k \in {0, 2, 6}}

(* Bytes a caller's buffer may hold after the encoded list: an integer, *)
(* six more fields, a byte that opens a long list, a hash.              *)
Trailers ==
    {<<42>>, EncodeForkFields(Forks(ForkFields, FALSE)), <<255>>,
     BytesEncode(SampleMixHash)}

(* An encoded list followed by more bytes in the same buffer. *)
TrailingInputs ==
    {HeaderEncode(TRUE, Len(body)) \o body \o t :
        body \in WholeBodies, t \in Trailers}

(* A list whose payload is the first n bytes of the fixed fields: the *)
(* outer prefix is honest, the field the cut falls in is short.       *)
CutInputs ==
    {HeaderEncode(TRUE, n) \o SubSeq(EncodeFixedFields(SampleFixed), 1, n) :
        n \in {0, 1, 20, 33, 34, 300}}

CraftedInputs ==
    UNION {{HeaderEncode(TRUE, n) \o body : n \in CraftedDeclared(body)}
           \cup {HeaderEncode(FALSE, Len(body)) \o body} :
           body \in CraftedBodies}
    \cup BrokenInputs
    \cup TinyInputs
    \cup TrailingInputs
    \cup CutInputs

InitBytes ==
    /\ h = Header(SampleFixed, PostMergeVariant, Forks({}, FALSE))
    /\ h2 = h
    /\ out = <<>>
    /\ out2 = <<>>
    /\ buf \in CraftedInputs
    /\ res = NoResult
    /\ hash1 = <<>>
    /\ hash2 = <<>>
    /\ pc = "crafted"

NextBytes == DecodeBegin \/ DecodeStep

SpecBytes == InitBytes /\ [][NextBytes]_vars

(* C15: for every input, decode returns an error or a header with exactly  *)
(* one consensus variant fully populated: mix_hash and nonce with no       *)
(* aura_step and no aura_seal, or aura_step and aura_seal with no mix_hash *)
(* and no nonce.                                                           *)
C15_NoPartialSuccess ==
    (pc = "decoded" /\ is_some(Header_of(res))) =>
        /\ VariantWellFormed(unwrap(Header_of(res)))
        /\ res.branch = "post_merge" <=> is_post_merge(res.this)
        /\ res.branch = "pre_merge" <=> is_pre_merge(res.this)

C15_Witness ==
    /\ pc = "decoded" /\ is_some(Header_of(res)) /\ buf # out
    /\ is_pre_merge(res.this) /\ is_none(res.this.mix_hash)
    /\ is_some(res.this.base_fee_per_gas)

(* decode came to its closing check: no field before it failed. *)
FinishReached == pc = "decoded" /\ (res.err = "" \/ res.at = "finish")

(* The bytes consumed after the outer prefix. *)
Consumed == res.pos - res.start

(* C16: decode returns a header only if the bytes consumed after the outer *)
(* prefix equal the declared payload length; when the closing check finds  *)
(* fewer or more consumed it fails with ListLengthMismatch carrying        *)
(* expected = the declared length and got = the bytes consumed.            *)
C16_FinalizationCheck ==
    /\ (pc = "decoded" /\ is_some(Header_of(res))) => Consumed = res.payload_length
    /\ (FinishReached /\ Consumed # res.payload_length) =>
          /\ res.err = "ListLengthMismatch"
          /\ res.expected = res.payload_length
          /\ res.got = Consumed
          /\ Header_of(res) = None
    /\ (pc = "decoded" /\ res.err = "ListLengthMismatch") =>
          (res.at = "finish" /\ Consumed # res.payload_length)

C16_Witness ==
    /\ FinishReached /\ res.err = "ListLengthMismatch"
    /\ res.got > res.expected /\ is_some(res.this.nonce)

(* C17: decoding an input whose outer prefix does not mark a list fails    *)
(* with UnexpectedString before any field is decoded and returns no        *)
(* header.                                                                 *)
C17_NotAList ==
    (pc = "decoded" /\ HeaderDecode(buf, 0).err = "" /\ ~HeaderDecode(buf, 0).list) =>
        /\ res.err = "UnexpectedString"
        /\ res.at = "list_header"
        /\ res.this = BlankHeader
        /\ res.pos = HeaderDecode(buf, 0).pos
        /\ Header_of(res) = None

C17_Witness ==
    /\ pc = "decoded" /\ HeaderDecode(buf, 0).err = "" /\ ~HeaderDecode(buf, 0).list
    /\ res.err = "UnexpectedString" /\ Len(buf) > Len(EncodeFixedFields(SampleFixed))

(* Where the fixed fields of a crafted input end. *)
FixedEnd == res.start + Len(EncodeFixedFields(SampleFixed))

(* decode went past the thirteen fixed fields. *)
VariantReached ==
    /\ pc = "decoded"
    /\ res.at \notin FixedFields \cup {"list_header"}
    /\ Len(buf) >= FixedEnd
    /\ SubSeq(buf, res.start + 1, FixedEnd) = EncodeFixedFields(SampleFixed)

(* The byte string that stands where aura_seal is read. *)
SealItem == DecodeBytes(buf, U256Decode(buf, FixedEnd).pos)

(* C18: in the pre-merge branch the aura_seal byte string is accepted only *)
(* if it is exactly 65 bytes long; with any other length decode fails with *)
(* the error made for it and returns no header.                            *)
C18_AuraSealLength ==
    (VariantReached /\ res.branch = "pre_merge"
     /\ U256Decode(buf, FixedEnd).err = "" /\ SealItem.err = "") =>
        /\ Len(SealItem.val) # AuraSealLen =>
              /\ res.err = "Custom: Failed to decode aura_seal as FixedBytes<65>"
              /\ res.at = "aura_seal"
              /\ is_none(res.this.aura_seal)
              /\ Header_of(res) = None
        /\ Len(SealItem.val) = AuraSealLen => res.this.aura_seal = Some(SealItem.val)

C18_Witness ==
    /\ VariantReached /\ res.branch = "pre_merge"
    /\ U256Decode(buf, FixedEnd).err = "" /\ SealItem.err = ""
    /\ Len(SealItem.val) = AuraSealLen - 1
    /\ res.err = "Custom: Failed to decode aura_seal as FixedBytes<65>"

(* C20: after the fixed fields decode reads the next item's prefix without *)
(* moving the cursor; it takes the post-merge branch (mix_hash, nonce) if  *)
(* and only if that prefix's payload length is 32, the pre-merge branch    *)
(* (aura_step, aura_seal) otherwise, and the first field of the branch is  *)
(* read where the prefix was; an error of the lookahead is decode's error. *)
C20_VariantResolution ==
    VariantReached =>
        /\ HeaderDecode(buf, FixedEnd).err # "" =>
              /\ res.err = HeaderDecode(buf, FixedEnd).err
              /\ res.at = "peek" /\ res.branch = "" /\ res.pos = FixedEnd
        /\ HeaderDecode(buf, FixedEnd).err = "" =>
              /\ res.branch = "post_merge"
                    <=> HeaderDecode(buf, FixedEnd).payload_length = B256Len
              /\ res.branch = "pre_merge"
                    <=> HeaderDecode(buf, FixedEnd).payload_length # B256Len
        /\ res.branch = "post_merge" =>
              IF FixedDecode(B256Len, buf, FixedEnd).err = ""
              THEN res.this.mix_hash = Some(FixedDecode(B256Len, buf, FixedEnd).val)
              ELSE /\ res.err = FixedDecode(B256Len, buf, FixedEnd).err
                   /\ res.at = "mix_hash"
        /\ res.branch = "pre_merge" =>
              IF U256Decode(buf, FixedEnd).err = ""
              THEN res.this.aura_step = Some(U256Decode(buf, FixedEnd).val)
              ELSE /\ res.err = U256Decode(buf, FixedEnd).err
                   /\ res.at = "aura_step"

C20_Witness ==
    /\ VariantReached /\ res.branch = "post_merge"
    /\ HeaderDecode(buf, FixedEnd).list
    /\ res.err = "UnexpectedList" /\ res.at = "mix_hash"


(* h with its aura fields cleared. *)
WithoutAura == [h EXCEPT !.aura_step = None, !.aura_seal = None]

(* C19: a header with mix_hash, nonce, aura_step and aura_seal all         *)
(* populated is encoded on the post-merge path: mix_hash, then nonce, the  *)
(* aura fields not written.  Decoding its encoding takes the post-merge    *)
(* branch and, the fork-specific fields being a prefix, yields the header  *)
(* with aura_step and aura_seal None; no header it returns has them.       *)
C19_MixedEncodesPostMerge ==
    (is_post_merge(h) /\ is_pre_merge(h) /\ pc # "start") =>
        /\ pc # "panicked"
        /\ out = HeaderEncode(TRUE, header_payload_length(h))
                 \o EncodeFixedFields(h)
                 \o BytesEncode(unwrap(h.mix_hash)) \o BytesEncode(unwrap(h.nonce))
                 \o EncodeForkFields(h)
        /\ out = encode(WithoutAura).bytes
        /\ RoundTripDone =>
              /\ res.branch = "post_merge"
              /\ is_none(res.this.aura_step) /\ is_none(res.this.aura_seal)
              /\ ForkIsPrefix(h) =>
                    /\ Header_of(res) = Some(WithoutAura)
                    /\ is_post_merge(res.this) /\ ~is_pre_merge(res.this)

C19_Witness ==
    /\ RoundTripDone /\ is_post_merge(h) /\ is_pre_merge(h)
    /\ Header_of(res) = Some(WithoutAura) /\ Header_of(res) # Some(h)

(* decode is about to run the statement of a fork-specific field. *)
AtForkField ==
    /\ pc = "decoding"
    /\ res.i <= Len(DecodeSteps)
    /\ DecodeSteps[res.i] \in ForkFields

(* C21: decode tries a fork-specific field, in the fixed order, only while *)
(* the bytes consumed so far are fewer than the declared payload length,   *)
(* and leaves the field and the cursor alone otherwise; so in every header *)
(* it returns the populated fork-specific fields are a prefix of the order. *)
C21_PresenceByExhaustion ==
    [][/\ AtForkField =>
            IF res.pos - res.start < res.payload_length
            THEN res'.tried = Append(res.tried, DecodeSteps[res.i])
            ELSE /\ res'.tried = res.tried
                 /\ res'.this = res.this
                 /\ res'.pos = res.pos
                 /\ res'.err = ""
       /\ (pc' = "decoded" /\ res'.err = "") =>
            /\ ForkIsPrefix(res'.this)
            /\ \A f \in ForkFields :
                  is_some(res'.this[f]) <=> \E k \in 1..Len(res'.tried) : res'.tried[k] = f
            /\ res'.tried = SubSeq(ForkFieldOrder, 1, Len(res'.tried))]_vars

C21_Witness ==
    /\ pc = "decoded" /\ res.err = "" /\ res.tried = <<"base_fee_per_gas", "withdrawals_root">>
    /\ is_some(res.this.withdrawals_root) /\ is_none(res.this.blob_gas_used)
    /\ res.pos - res.start = res.payload_length

(***************************************************************************)
(* The length calculator called on any header a caller can build.          *)
(***************************************************************************)
InitLength ==
    /\ h \in Headers
    /\ h2 = h
    /\ out = <<>>
    /\ out2 = <<>>
    /\ buf = <<>>
    /\ res = [header_payload_length |-> 0, length |-> 0]
    /\ hash1 = <<>>
    /\ hash2 = <<>>
    /\ pc = "start"

(* header.length(), which calls header_payload_length() *)
Length ==
    /\ pc = "start"
    /\ res' = [header_payload_length |-> header_payload_length(h),
               length |-> length(h)]
    /\ pc' = "measured"
    /\ UNCHANGED <<h, h2, out, out2, buf, hash1, hash2>>

NextLength == Length

SpecLength == InitLength /\ [][NextLength]_vars

(* The bytes of one fork-specific field of g when populated, none when not. *)
ForkFieldBytes(g, f) ==
    IF is_none(g[f]) THEN 0
    ELSE IF f \in {"base_fee_per_gas", "blob_gas_used", "excess_blob_gas"}
    THEN Len(UintEncode(unwrap(g[f])))
    ELSE Len(BytesEncode(unwrap(g[f])))

(* C22: the length calculator returns, for every header that can be built  *)
(* and also for those encode panics on, the fixed fields' lengths, plus    *)
(* those of mix_hash and nonce if both are populated, otherwise that of    *)
(* aura_step (absent: of the integer zero) plus that of aura_seal if       *)
(* present, plus that of every populated fork-specific field whatever the  *)
(* earlier ones are.                                                       *)
C22_LengthCalculatorTotal ==
    pc = "measured" =>
        /\ res.header_payload_length =
               Len(EncodeFixedFields(h))
             + (IF is_some(h.mix_hash) /\ is_some(h.nonce)
                THEN Len(BytesEncode(unwrap(h.mix_hash)))
                     + Len(BytesEncode(unwrap(h.nonce)))
                ELSE Len(UintEncode(IF is_some(h.aura_step)
                                    THEN unwrap(h.aura_step) ELSE <<>>))
                     + (IF is_some(h.aura_seal)
                        THEN Len(BytesEncode(unwrap(h.aura_seal))) ELSE 0))
             + ForkFieldBytes(h, "base_fee_per_gas")
             + ForkFieldBytes(h, "withdrawals_root")
             + ForkFieldBytes(h, "blob_gas_used")
             + ForkFieldBytes(h, "excess_blob_gas")
             + ForkFieldBytes(h, "parent_beacon_block_root")
             + ForkFieldBytes(h, "requests_hash")
        /\ res.length = res.header_payload_length
                        + Len(HeaderEncode(TRUE, res.header_payload_length))

C22_Witness ==
    /\ pc = "measured" /\ EncodePanics(h)
    /\ is_none(h.aura_step) /\ is_some(h.aura_seal) /\ is_some(h.mix_hash)
    /\ res.header_payload_length = Len(EncodeFixedFields(h)) + 1
                                   + Len(BytesEncode(unwrap(h.aura_seal)))

(* The alloy_rlp::Error decode returns: its variant and, for a            *)
(* ListLengthMismatch, the two numbers.  No variant has room for a field. *)
ErrorOf(st) == [kind |-> st.err, expected |-> st.expected, got |-> st.got]

(* The place of a fixed field in the struct literal of decode. *)
FieldIndex(f) == CHOOSE k \in 1..Len(FixedFieldOrder) : FixedFieldOrder[k] = f

RECURSIVE FieldStart(_, _, _)
(* Where the k-th fixed field is read in b, the first being read at pos. *)
FieldStart(b, pos, k) ==
    IF k = 1 THEN pos
    ELSE FieldDecode(FixedFieldOrder[k - 1], b, FieldStart(b, pos, k - 1)).pos

(* decode returned the failure of one of the thirteen fixed fields. *)
FixedFieldFailed == pc = "decoded" /\ res.err # "" /\ res.at \in FixedFields

(* decode stopped at the failing fixed field: nothing after it was read. *)
StoppedAtField ==
    /\ res.i = FieldIndex(res.at) + 1
    /\ \A k \in FieldIndex(res.at)..Len(FixedFieldOrder) :
          res.this[FixedFieldOrder[k]] = BlankHeader[FixedFieldOrder[k]]
    /\ \A f \in FieldNames \ FixedFields : is_none(res.this[f])
    /\ res.branch = "" /\ res.tried = <<>>
    /\ Header_of(res) = None

(* A failure of parent_hash: a 31-byte string where the hash is read. *)
ParentHashFailure ==
    DecodeNext(HeaderEncode(TRUE, Len(BrokenBody(1, BytesEncode(Rep(B256Len - 1, 1)))))
               \o BrokenBody(1, BytesEncode(Rep(B256Len - 1, 1))),
               DecodeListHeader(
                   HeaderEncode(TRUE, Len(BrokenBody(1, BytesEncode(Rep(B256Len - 1, 1)))))
                   \o BrokenBody(1, BytesEncode(Rep(B256Len - 1, 1)))))

ReEncode ==
    /\ pc = "decoded"
    /\ res.err = ""
    /\ out = <<>>
    /\ h2' = res.this
    /\ IF encode(res.this).panic
       THEN /\ pc' = "repanicked"
            /\ UNCHANGED <<out, buf>>
       ELSE /\ pc' = "reencoded"
            /\ out' = encode(res.this).bytes
            /\ buf' = encode(res.this).bytes
    /\ UNCHANGED <<h, out2, res, hash1, hash2>>

NextReencode == DecodeBegin \/ DecodeStep \/ ReEncode

SpecReencode == InitBytes /\ [][NextReencode]_vars

(* The second decode, of the bytes ReEncode wrote, has returned. *)
ReDecoded == pc = "decoded" /\ out # <<>>

(* C24: every header h that decode returns is a round-trip fixed point:    *)
(* it is well-formed, a pre-merge one has an aura_step whose payload is    *)
(* not 32 bytes, encode(h) does not panic, and decode(encode(h)) returns   *)
(* Ok with a header equal to h.                                            *)
C24_DecodedFixedPoint ==
    /\ pc # "repanicked"
    /\ pc = "reencoded" =>
           /\ WellFormed(h2)
           /\ is_pre_merge(h2) => Len(unwrap(h2.aura_step)) # B256Len
    /\ ReDecoded => Header_of(res) = Some(h2)

(* A buffer with bytes after the list was decoded to a pre-merge header    *)
(* with fork-specific fields, and the header's encoding decoded again.     *)
C24_Witness ==
    /\ ReDecoded
    /\ res.err = ""
    /\ is_pre_merge(h2)
    /\ is_some(h2.requests_hash)
    /\ res.this = h2

(***************************************************************************)
(* Two headers built independently, each encoded into a sink of its own.   *)
(***************************************************************************)
(* Fork-specific fields with f alone populated, holding v. *)
OnlyFork(f, v) == [g \in ForkFields |-> IF g = f THEN Some(v) ELSE None]

TwoFixed ==
    {SampleFixed, [SampleFixed EXCEPT !.ommers_hash = Rep(B256Len, 255)],
     [SampleFixed EXCEPT !.gas_used = <<15, 66, 64>>]}

(* Consensus fields that look alike on the wire: a 32-byte aura_step and *)
(* a mix_hash of the same bytes, and all four fields populated.          *)
TwoVariants ==
    {PostMergeVariant,
     Variant(Some(Rep(B256Len, 255)), Some(SampleNonce), None, None),
     PreMergeVariant(SampleMixHash), PreMergeVariant(Rep(U256Len, 255)),
     PreMergeVariant(<<42>>),
     Variant(Some(SampleMixHash), Some(SampleNonce), Some(<<42>>),
             Some(SampleAuraSeal))}

TwoForks ==
    {Forks(ForkPrefix(k), FALSE) : k \in {0, 1, 2, 3, 6}}
    \cup {OnlyFork(f, ForkValue("base_fee_per_gas", FALSE)) :
             f \in {"blob_gas_used", "excess_blob_gas"}}

TwoHeaders ==
    {Header(fx, va, fo) : fx \in TwoFixed, va \in TwoVariants, fo \in TwoForks}

InitTwo ==
    /\ h \in TwoHeaders
    /\ h2 \in TwoHeaders
    /\ out = <<>>
    /\ out2 = <<>>
    /\ buf = <<>>
    /\ res = NoResult
    /\ hash1 = <<>>
    /\ hash2 = <<>>
    /\ pc = "start"

(* other.encode(&mut buf2) *)
EncodeOther ==
    /\ pc = "encoded"
    /\ IF encode(h2).panic
       THEN /\ pc' = "panicked2"
            /\ UNCHANGED out2
       ELSE /\ pc' = "encoded2"
            /\ out2' = out2 \o encode(h2).bytes
    /\ UNCHANGED <<h, h2, out, buf, res, hash1, hash2>>

NextTwo == Encode \/ EncodeOther

SpecTwo == InitTwo /\ [][NextTwo]_vars

(* C25: encode is injective on well-formed headers: two well-formed       *)
(* headers that differ in any field are encoded to different bytes, also  *)
(* a pre-merge header with a 32-byte aura_step and a post-merge header.   *)
C25_EncodeInjective ==
    (pc = "encoded2" /\ WellFormed(h) /\ WellFormed(h2) /\ h # h2)
        => out # out2

(* A pre-merge header with a 32-byte aura_step next to the post-merge      *)
(* header whose mix_hash is those 32 bytes: their encodings differ.        *)
C25_Witness ==
    /\ pc = "encoded2"
    /\ WellFormed(h) /\ WellFormed(h2)
    /\ is_pre_merge(h) /\ is_post_merge(h2)
    /\ h.aura_step = Some(Rep(U256Len, 255))
    /\ h2.mix_hash = Some(Rep(B256Len, 255))
    /\ \A f \in FixedFields \cup ForkFields : h[f] = h2[f]
    /\ out # out2
    /\ LET a == HeaderDecode(out, 0).pos + Len(EncodeFixedFields(h))
       IN  SubSeq(out, a + 1, a + 1 + B256Len) = SubSeq(out2, a + 1, a + 1 + B256Len)

(* C26: for every well-formed pre-merge header whose aura_step has a       *)
(* 32-byte payload, decode of its encoding returns an error and never a    *)
(* header: the 32 bytes are consumed as mix_hash, and the 65-byte          *)
(* aura_seal then read as the 8-byte nonce is rejected.                    *)
C26_AuraStep32DecodeFails ==
    (RoundTripDone /\ WellFormedPreMerge(h)
     /\ Len(unwrap(h.aura_step)) = B256Len) =>
        /\ Header_of(res) = None
        /\ res.err = "UnexpectedLength"
        /\ res.at = "nonce"
        /\ res.tried = <<>>

(* The header with aura_step 2^256 - 1 and all six fork-specific fields    *)
(* was encoded and its decode returned the error.                          *)
C26_Witness ==
    /\ RoundTripDone
    /\ WellFormedPreMerge(h)
    /\ h.aura_step = Some(Rep(U256Len, 255))
    /\ is_some(h.requests_hash)
    /\ res.err = "UnexpectedLength"

(* C27: decode is total: on every input (empty, cut short, followed by     *)
(* more bytes, arbitrary) each statement of decode runs to the next or     *)
(* returns, after at most one pass over its statements the call has        *)
(* returned Ok or Err, the cursor only moves forward and stays inside the  *)
(* buffer, and it never lies before the place started_len was taken, so    *)
(* that started_len - remaining does not underflow.                        *)
C27_DecodeTotal ==
    [][/\ pc' \in {"decoding", "decoded"}
       /\ pc' = "decoded" <=> Returned(res')
       /\ pc = "decoding" => res'.i = res.i + 1
       /\ res'.i <= Len(DecodeSteps) + 1
       /\ res.pos <= res'.pos
       /\ res'.pos <= Len(buf)
       /\ res'.start <= res'.pos]_vars

(* decode returned Err on a list cut inside logs_bloom, after six fields. *)
C27_Witness ==
    /\ pc = "decoded"
    /\ buf \in CutInputs
    /\ res.err = "InputTooShort"
    /\ res.at = "logs_bloom"
    /\ res.start < res.pos

(* C28: when decode returns Ok the cursor has advanced by exactly the size *)
(* of the outer prefix plus the payload length it declares; the bytes of   *)
(* the buffer after the list are left unread and have no part in the       *)
(* returned header, which is the header whose encoding is the list alone.  *)
C28_CursorAfterList ==
    (pc = "decoded" /\ res.err = "") =>
        /\ res.pos = HeaderDecode(buf, 0).pos + HeaderDecode(buf, 0).payload_length
        /\ res.pos <= Len(buf)
        /\ encode(res.this).bytes = SubSeq(buf, 1, res.pos)

(* A list with two fork-specific fields followed in the buffer by six more *)
(* encoded fields: decode returned a header with only the two.             *)
C28_Witness ==
    /\ pc = "decoded"
    /\ res.err = ""
    /\ buf \in TrailingInputs
    /\ SubSeq(buf, res.pos + 1, Len(buf)) = EncodeForkFields(Forks(ForkFields, FALSE))
    /\ is_some(res.this.withdrawals_root)
    /\ is_none(res.this.blob_gas_used)

(***************************************************************************)
(* A header whose only fork-specific field is blob_gas_used or             *)
(* excess_blob_gas, and the header that holds the same value in            *)
(* base_fee_per_gas instead: both encoded and hashed, the bytes decoded.   *)
(***************************************************************************)
ShiftFields == {"blob_gas_used", "excess_blob_gas"}

ShiftVariants ==
    {PostMergeVariant, PreMergeVariant(SampleAuraStep), PreMergeVariant(<<>>),
     PreMergeVariant(Rep(U256Len, 255)),
     Variant(Some(SampleMixHash), Some(SampleNonce), Some(<<42>>),
             Some(SampleAuraSeal)),
     Variant(None, None, None, None)}

ShiftHeaders ==
    {Header(SampleFixed, va, OnlyFork(f, x)) :
        va \in ShiftVariants, f \in ShiftFields, x \in U64Values}

InitShift ==
    /\ h \in ShiftHeaders
    /\ h2 = h
    /\ out = <<>>
    /\ out2 = <<>>
    /\ buf = <<>>
    /\ res = NoResult
    /\ hash1 = <<>>
    /\ hash2 = <<>>
    /\ pc = "start"

(* The otherwise identical header: the value moved to base_fee_per_gas. *)
Shift ==
    /\ pc = "encoded"
    /\ \E f \in ShiftFields :
          /\ is_some(h[f])
          /\ h2' = [h EXCEPT ![f] = None, !.base_fee_per_gas = h[f]]
    /\ pc' = "modified"
    /\ UNCHANGED <<h, out, out2, buf, res, hash1, hash2>>

NextShift ==
    Encode \/ Shift \/ EncodeModified \/ HashBoth \/ DecodeBegin \/ DecodeStep

SpecShift == InitShift /\ [][NextShift]_vars

(* Both headers are encoded and hashed, and decode of the bytes returned. *)
ShiftDone == pc = "decoded" /\ h2 # h

(* encode(h) lands on the pre-merge path with a 32-byte aura_step. *)
AuraStep32(g) ==
    /\ ~is_post_merge(g)
    /\ is_pre_merge(g)
    /\ Len(unwrap(g.aura_step)) = B256Len

(* C29 as stated: for every u64 x and otherwise identical headers, the     *)
(* header whose only fork-specific field is blob_gas_used = x (or          *)
(* excess_blob_gas = x) is encoded to the same bytes and hash as the one   *)
(* whose only fork-specific field is base_fee_per_gas = x, and decode of   *)
(* those bytes succeeds and returns the latter.                            *)
C29_Original ==
    ShiftDone =>
        /\ out = out2
        /\ hash1 = hash2
        /\ Header_of(res) = Some(h2)

(* C29, amended: whenever encode does not panic on the first header it     *)
(* does not panic on the second, the two are encoded to the same bytes and *)
(* have the same hash; decode of the bytes returns the header with         *)
(* base_fee_per_gas = x when the header has exactly one consensus variant  *)
(* populated and is not a pre-merge header with a 32-byte aura_step, for   *)
(* which decode returns an error.                                          *)
C29_SilentFieldShift ==
    /\ pc # "panicked2"
    /\ ShiftDone =>
          /\ out = out2
          /\ buf = out2
          /\ hash1 = hash2
          /\ hash1.inherent = keccak256(out2)
          /\ (VariantWellFormed(h) /\ ~AuraStep32(h)) =>
                 /\ Header_of(res) = Some(h2)
                 /\ Header_of(res) # Some(h)
          /\ AuraStep32(h) => Header_of(res) = None

(* blob_gas_used = 2^64 - 1 alone came back as base_fee_per_gas = 2^64 - 1. *)
C29_Witness ==
    /\ ShiftDone
    /\ h.blob_gas_used = Some(Rep(U64Len, 255))
    /\ is_pre_merge(h)
    /\ out = out2
    /\ res.err = ""
    /\ res.this.base_fee_per_gas = Some(Rep(U64Len, 255))
    /\ is_none(res.this.blob_gas_used)

(* C30: from_compact returns as its second component the input buffer     *)
(* unchanged: the remainder the shadow record's from_compact computed is   *)
(* dropped, so the returned slice is not advanced past the bytes read.     *)
C30_FromCompactReturnsInput ==
    pc = "compact_back" =>
        /\ out2 = buf
        /\ CompactHeader_from_compact(buf, Len(buf)).pos > 0
        /\ out2 # SubSeq(buf, CompactHeader_from_compact(buf, Len(buf)).pos + 1,
                         Len(buf))

(* The compact bytes of a pre-merge header with all six fork-specific      *)
(* fields were read to their end and handed back whole.                    *)
C30_Witness ==
    /\ pc = "compact_back"
    /\ is_pre_merge(h)
    /\ is_some(h.requests_hash)
    /\ CompactHeader_from_compact(buf, Len(buf)).pos = Len(buf)
    /\ Len(out2) = Len(buf)
    /\ Len(buf) > CompactFlagBytes

====
